---- MODULE Spec2Model ----
(***************************************************************************)
(* A model of the mini-os simulator core (src/simulator.c, simulator.h):   *)
(* the single-step driver, the scheduler, the instruction interpreter and  *)
(* the mutex subsystem.  The whole SystemState is one record, sys; every   *)
(* C function that takes a SystemState* is an operator from a state record *)
(* to a state record, and every driver entry point is one action.          *)
(***************************************************************************)
EXTENDS Integers, Sequences, FiniteSets, TLC

\* sys: the SystemState; call: the last driver call (its name, argument and
\* returned bool); terminalReached: history, whether the terminal condition
\* (processCount > 0 and every PCB TERMINATED) has held at some call boundary
VARIABLES sys, call, terminalReached

vars == <<sys, call, terminalReached>>

(* ------------------------- program constants --------------------------- *)

MEMORY_SIZE == 60
MAX_PROGRAM_LINES == 50
NUM_VARIABLES == 3
PCB_SIZE == 5
MAX_PROCESSES == 10
MAX_QUEUE_SIZE == 10
MLFQ_LEVELS == 4
NUM_RESOURCES == 3

(* ----------------------------- bounds ---------------------------------- *)

\* number of loadProgram calls explored in one run
MaxLoads == 2
\* stepSimulation is not called once clockCycle has reached this value
MaxClock == 7
\* largest rrQuantum passed to initializeSystem
MaxQuantum == 2
\* loadProgram is not called once clockCycle has passed this value
MaxLoadClock == 1
\* contention runs: number of loadProgram calls, and the last clockCycle at
\* which loadProgram is called
MaxContenders == 3
MaxContendLoadClock == 5
\* long runs: stepSimulation is not called once clockCycle has reached this
\* value
MaxLongClock == 17

(* --------------------------- enumerations ------------------------------ *)

SchedulerType == {"FCFS", "RR", "MLFQ"}
ProcessState == {"NEW", "READY", "RUNNING", "BLOCKED", "TERMINATED"}
ResourceType == 0 .. (NUM_RESOURCES - 1)

\* a null char* (a token strtok did not find, a NULL input)
NULL == "<NULL>"

(* --------------------------- memory words ------------------------------ *)

\* The name of a memory word is a formatted string in the code; here it is
\* the record of the fields that were formatted into it.
EmptyName == [tag |-> "", pid |-> 0, idx |-> 0, var |-> ""]
InstName(pid, k) == [tag |-> "Inst", pid |-> pid, idx |-> k, var |-> ""]
VarName(pid, n) == [tag |-> "Var", pid |-> pid, idx |-> 0, var |-> n]
PCBSlotName(pid, i) == [tag |-> "PCB", pid |-> pid, idx |-> i, var |-> ""]
MemoryWord(n, v) == [name |-> n, value |-> v]

\* "Free%d" as printed for the i-th variable slot
FreeSlot(i) == <<"Free0", "Free1", "Free2">>[i + 1]

\* variable names of the modelled programs that begin with "Free"
FreePrefixed == {"Free0", "Free1", "Free2"}

\* strncmp(name, "Var_<pid>_Free", len) == 0
HasFreePrefix(name, pid) ==
    name.tag = "Var" /\ name.pid = pid /\ name.var \in FreePrefixed

\* strncmp(name, "Inst_<pid>_", len) == 0
HasInstPrefix(name, pid) == name.tag = "Inst" /\ name.pid = pid

(* ------------------------- callbacks and log --------------------------- *)

Begin(s) == [s EXCEPT !.events = <<>>]
sim_log(s, msg) == [s EXCEPT !.events = Append(@, <<"log", msg>>)]
sim_output(s, pid, out) == [s EXCEPT !.events = Append(@, <<"output", pid, out>>)]
notify_state_update(s) == [s EXCEPT !.events = Append(@, <<"state_update">>)]

(* ------------------------------ programs ------------------------------- *)

\* an instruction line as strtok splits it: cmd, a1, a2, a3 (NULL if absent)
Ins1(c, a) == <<c, a, NULL, NULL>>
Ins2(c, a, b) == <<c, a, b, NULL>>
Ins3(c, a, b, d) == <<c, a, b, d>>

ProgMutex == <<Ins1("semWait", "file"), Ins2("assign", "x", "1"), Ins1("semSignal", "file")>>
ProgSelfWait == <<Ins1("semWait", "file"), Ins1("semWait", "file")>>
ProgInput == <<Ins2("assign", "x", "input"), Ins1("print", "x")>>
ProgInputLast == <<Ins2("assign", "x", "input")>>
ProgBadPrint == <<Ins1("print", "y")>>
ProgBadSignal == <<Ins1("semSignal", "file"), Ins2("assign", "x", "1")>>
ProgThree == <<Ins2("assign", "x", "1"), Ins2("assign", "y", "2"), Ins2("assign", "z", "3")>>
ProgWaitOnly == <<Ins1("semWait", "file")>>
ProgHolder == <<Ins1("semWait", "file"), Ins2("assign", "x", "1"), Ins2("assign", "y", "2"),
                Ins1("semSignal", "file")>>
\* a program of LongLines instructions without error, block or input
LongLines == 18
ProgLong == [i \in 1 .. LongLines |-> Ins2("assign", "x", "1")]
\* five instructions without error, block or input
ProgFive == [i \in 1 .. 5 |-> Ins2("assign", "x", "1")]
ProgLateWait == <<Ins2("assign", "a", "1"), Ins1("semWait", "file")>>
ProgFourVars == <<Ins2("assign", "x", "1"), Ins2("assign", "y", "2"), Ins2("assign", "z", "3"),
                  Ins2("assign", "w", "input")>>

\* a program file: its name, whether fopen succeeds, its non-blank lines
File(n, l) == [name |-> n, exists |-> TRUE, lines |-> l]
Files ==
    { File("Program_1.txt", ProgMutex),
      File("Program_2.txt", ProgSelfWait),
      File("Program_3.txt", ProgInput),
      File("input_last.txt", ProgInputLast),
      File("bad_print.txt", ProgBadPrint),
      File("bad_signal.txt", ProgBadSignal),
      File("three.txt", ProgThree),
      File("four_vars.txt", ProgFourVars),
      File("wait_only.txt", ProgWaitOnly),
      File("empty.txt", <<>>),
      [name |-> "missing.txt", exists |-> FALSE, lines |-> <<>>] }

getProgramNumberFromFilename(filename) ==
    IF filename = "Program_1.txt" THEN 1
    ELSE IF filename = "Program_2.txt" THEN 2
    ELSE IF filename = "Program_3.txt" THEN 3
    ELSE 0

(* ---------------------------- construction ----------------------------- *)

Mutex0 == [locked |-> FALSE, lockingProcessID |-> -1, blockedQueue |-> <<>>]

initializeSystem(type, rrQuantumVal, requestInputCb) ==
    LET s0 == [memory |-> [i \in 0 .. (MEMORY_SIZE - 1) |-> MemoryWord(EmptyName, "")],
               memoryPointer |-> 0,
               processTable |-> [i \in {} |-> 0],
               processCount |-> 0,
               mutexes |-> [r \in ResourceType |-> Mutex0],
               readyQueue |-> <<>>,
               mlfqRQ |-> [l \in 0 .. (MLFQ_LEVELS - 1) |-> <<>>],
               runningProcessID |-> -1,
               clockCycle |-> 0,
               schedulerType |-> type,
               rrQuantum |-> IF type = "RR"
                             THEN (IF rrQuantumVal > 0 THEN rrQuantumVal ELSE 1)
                             ELSE 0,
               mlfqQuantum |-> [l \in 0 .. (MLFQ_LEVELS - 1) |-> <<1, 2, 4, 8>>[l + 1]],
               needsInput |-> FALSE,
               inputVarName |-> "",
               inputPid |-> 0,
               request_input |-> requestInputCb,
               simulationComplete |-> FALSE,
               wasUnblockedThisCycle |-> [i \in 0 .. (MAX_PROCESSES - 1) |-> FALSE],
               events |-> <<>>]
    IN notify_state_update(sim_log(s0, "System initialized"))

(* ------------------------------ loading -------------------------------- *)

\* allocateMemory that refuses a request filling the memory exactly
allocateMemory_NoExactFit(s, words) ==
    IF s.memoryPointer + words >= MEMORY_SIZE
    THEN [s |-> sim_log(s, "Error: Out of memory"), start |-> -1]
    ELSE [s |-> [s EXCEPT !.memoryPointer = @ + words], start |-> s.memoryPointer]

\* result: the new state and the start index, -1 if the arena is exhausted
allocateMemory(s, words) ==
    IF s.memoryPointer + words > MEMORY_SIZE
    THEN [s |-> sim_log(s, "Error: Out of memory"), start |-> -1]
    ELSE [s |-> [s EXCEPT !.memoryPointer = @ + words], start |-> s.memoryPointer]

\* NewPCB with the lower bound off by one
NewPCB_LowerBoundOff(s, f, lb, ub) ==
    [processID |-> s.processCount,
     programNumber |-> getProgramNumberFromFilename(f.name),
     state |-> "NEW",
     priority |-> 0,
     programCounter |-> 0,
     memoryLowerBound |-> lb + 1,
     memoryUpperBound |-> ub,
     arrivalTime |-> s.clockCycle,
     blockedOnResource |-> -1,
     quantumRemaining |-> 0,
     mlfqLevel |-> 0]

NewPCB(s, f, lb, ub) ==
    [processID |-> s.processCount,
     programNumber |-> getProgramNumberFromFilename(f.name),
     state |-> "NEW",
     priority |-> 0,
     programCounter |-> 0,
     memoryLowerBound |-> lb,
     memoryUpperBound |-> ub,
     arrivalTime |-> s.clockCycle,
     blockedOnResource |-> -1,
     quantumRemaining |-> 0,
     mlfqLevel |-> 0]

\* the words loadProgram writes into [lb..ub] for count instruction lines
LoadedWord(s, f, lb, count, i) ==
    LET pid == s.processCount
        k == i - lb
    IN IF k < count THEN MemoryWord(InstName(pid, k), f.lines[k + 1])
       ELSE IF k < count + NUM_VARIABLES
            THEN MemoryWord(VarName(pid, FreeSlot(k - count)), "")
       ELSE MemoryWord(PCBSlotName(pid, k - count - NUM_VARIABLES), "")

\* loadProgram once allocateMemory has answered a: the PCB and the words
InstallProgram(s, a, f, count) ==
    IF a.start < 0
    THEN [s |-> a.s, ret |-> FALSE]
    ELSE [s |-> notify_state_update(sim_log(
                  [a.s EXCEPT
                     !.memory = [i \in 0 .. (MEMORY_SIZE - 1) |->
                                   IF i >= a.start
                                      /\ i <= a.start + count + NUM_VARIABLES + PCB_SIZE - 1
                                   THEN LoadedWord(s, f, a.start, count, i)
                                   ELSE @[i]],
                     !.processTable = [i \in 0 .. s.processCount |->
                                         IF i = s.processCount
                                         THEN NewPCB(s, f, a.start,
                                                     a.start + count + NUM_VARIABLES
                                                       + PCB_SIZE - 1)
                                         ELSE @[i]],
                     !.processCount = @ + 1],
                  "Loaded")),
          ret |-> TRUE]

\* LoadLines that reserves the instruction words only
LoadLines_InstructionsOnly(s, f, count) ==
    InstallProgram(s,
                   allocateMemory(IF Len(f.lines) > MAX_PROGRAM_LINES
                                  THEN sim_log(s, "Warning: truncated") ELSE s,
                                  count),
                   f, count)

\* loadProgram after the line count: truncation and allocation
LoadLines(s, f, count) ==
    InstallProgram(s,
                   allocateMemory(IF Len(f.lines) > MAX_PROGRAM_LINES
                                  THEN sim_log(s, "Warning: truncated") ELSE s,
                                  count + NUM_VARIABLES + PCB_SIZE),
                   f, count)

\* loadProgram that reserves the variable and PCB words of an empty file
loadProgram_EmptyAllocates(s, f) ==
    IF s.processCount >= MAX_PROCESSES
    THEN [s |-> sim_log(s, "Error: process table full"), ret |-> FALSE]
    ELSE IF ~f.exists
    THEN [s |-> sim_log(s, "Error opening program file"), ret |-> FALSE]
    ELSE IF Len(f.lines) = 0
    THEN [s |-> allocateMemory(sim_log(s, "Warning: file is empty"),
                               NUM_VARIABLES + PCB_SIZE).s,
          ret |-> TRUE]
    ELSE LoadLines(s, f, IF Len(f.lines) > MAX_PROGRAM_LINES
                         THEN MAX_PROGRAM_LINES ELSE Len(f.lines))

\* result: the new state and the returned bool
loadProgram(s, f) ==
    IF s.processCount >= MAX_PROCESSES
    THEN [s |-> sim_log(s, "Error: process table full"), ret |-> FALSE]
    ELSE IF ~f.exists
    THEN [s |-> sim_log(s, "Error opening program file"), ret |-> FALSE]
    ELSE IF Len(f.lines) = 0
    THEN [s |-> sim_log(s, "Warning: file is empty"), ret |-> TRUE]
    ELSE LoadLines(s, f, IF Len(f.lines) > MAX_PROGRAM_LINES
                         THEN MAX_PROGRAM_LINES ELSE Len(f.lines))

\* findPCB returns NULL for a pid outside the table
ValidPid(s, pid) == pid >= 0 /\ pid < s.processCount

RECURSIVE CountInst(_, _, _, _)
CountInst(s, pid, i, ub) ==
    IF i <= ub /\ HasInstPrefix(s.memory[i].name, pid)
    THEN 1 + CountInst(s, pid, i + 1, ub)
    ELSE 0

findInstructionCount(s, pid) ==
    IF ~ValidPid(s, pid) THEN 0
    ELSE CountInst(s, pid, s.processTable[pid].memoryLowerBound,
                   s.processTable[pid].memoryUpperBound)

PcbOf(s, pid) == s.processTable[pid]

\* pcb->state = st
SetState(s, pid, st) == [s EXCEPT !.processTable[pid].state = st]

(* ----------------------------- scheduling ------------------------------ *)

\* addToReadyQueue with the enqueue forgotten: the PCB is marked READY only
addToReadyQueue_NoEnqueue(s, pid) ==
    IF ~ValidPid(s, pid) THEN s
    ELSE IF Len(s.readyQueue) >= MAX_QUEUE_SIZE
    THEN SetState(sim_log(s, "Error: FCFS/RR Ready queue full"), pid, "TERMINATED")
    ELSE SetState(s, pid, "READY")

\* addToReadyQueue inserting at the head of the queue
addToReadyQueue_AtHead(s, pid) ==
    IF ~ValidPid(s, pid) THEN s
    ELSE IF Len(s.readyQueue) >= MAX_QUEUE_SIZE
    THEN SetState(sim_log(s, "Error: FCFS/RR Ready queue full"), pid, "TERMINATED")
    ELSE [SetState(s, pid, "READY") EXCEPT !.readyQueue = <<pid>> \o @]

addToReadyQueue(s, pid) ==
    IF ~ValidPid(s, pid) THEN s
    ELSE IF Len(s.readyQueue) >= MAX_QUEUE_SIZE
    THEN SetState(sim_log(s, "Error: FCFS/RR Ready queue full"), pid, "TERMINATED")
    ELSE [SetState(s, pid, "READY") EXCEPT !.readyQueue = Append(@, pid)]

RECURSIVE addToMLFQ(_, _, _)
addToMLFQ(s, pid, level) ==
    IF level < 0 \/ level >= MLFQ_LEVELS
    THEN sim_log(s, "Error: Invalid MLFQ level")
    ELSE IF Len(s.mlfqRQ[level]) >= MAX_QUEUE_SIZE
    THEN LET s1 == sim_log(s, "Warning: MLFQ level full")
         IN IF level + 1 < MLFQ_LEVELS
            THEN addToMLFQ(s1, pid, level + 1)
            ELSE LET s2 == sim_log(s1, "Error: All MLFQ levels full")
                 IN IF ValidPid(s2, pid) THEN SetState(s2, pid, "TERMINATED") ELSE s2
    ELSE IF ~ValidPid(s, pid) THEN s
    ELSE [s EXCEPT !.processTable[pid].state = "READY",
                   !.processTable[pid].mlfqLevel = level,
                   !.processTable[pid].priority = level,
                   !.mlfqRQ[level] = Append(@, pid)]

\* result: the new state and the pid to run, -1 if nothing is runnable
RECURSIVE ScheduleMLFQFrom(_, _)
ScheduleMLFQFrom(s, lvl) ==
    IF lvl >= MLFQ_LEVELS THEN [s |-> s, pid |-> -1]
    ELSE IF Len(s.mlfqRQ[lvl]) > 0
    THEN LET pid == Head(s.mlfqRQ[lvl])
             s1 == [s EXCEPT !.mlfqRQ[lvl] = Tail(@)]
         IN IF PcbOf(s1, pid).state = "READY"
            THEN [s |-> s1, pid |-> pid]
            ELSE ScheduleMLFQFrom(s1, lvl)
    ELSE ScheduleMLFQFrom(s, lvl + 1)

\* ScheduleFIFO reading the head without advancing readyHead
ScheduleFIFO_NoPop(s) ==
    IF Len(s.readyQueue) > 0 /\ PcbOf(s, Head(s.readyQueue)).state = "READY"
    THEN [s |-> s, pid |-> Head(s.readyQueue)]
    ELSE [s |-> [s EXCEPT !.readyQueue = <<>>], pid |-> -1]

RECURSIVE ScheduleFIFO(_)
ScheduleFIFO(s) ==
    IF Len(s.readyQueue) > 0
    THEN LET pid == Head(s.readyQueue)
             s1 == [s EXCEPT !.readyQueue = Tail(@)]
         IN IF PcbOf(s1, pid).state = "READY"
            THEN [s |-> s1, pid |-> pid]
            ELSE ScheduleFIFO(s1)
    ELSE [s |-> s, pid |-> -1]

\* scheduleNextProcess with the MLFQ scan starting at level 1
scheduleNextProcess_SkipLevel0(s) ==
    IF s.schedulerType = "MLFQ" THEN ScheduleMLFQFrom(s, 1) ELSE ScheduleFIFO(s)

scheduleNextProcess(s) ==
    IF s.schedulerType = "MLFQ" THEN ScheduleMLFQFrom(s, 0) ELSE ScheduleFIFO(s)

(* ------------------------- variable management ------------------------- *)

MinOf(S) == CHOOSE x \in S : \A y \in S : x <= y

\* the scan's answer: the word with the name, else (findFree) the first free one
NamedOrFree(named, free, findFree) ==
    IF named # {} THEN MinOf(named)
    ELSE IF findFree /\ free # {} THEN MinOf(free)
    ELSE -1

\* the scan of the variable slots varAreaStart..varAreaEnd
ScanVarArea(s, pid, varName, findFree, area) ==
    NamedOrFree({i \in area : s.memory[i].name = VarName(pid, varName)},
                {i \in area : \/ s.memory[i].name.tag = ""
                              \/ HasFreePrefix(s.memory[i].name, pid)},
                findFree)

\* the variable slots: NUM_VARIABLES words after the instructions, cut at ub
VarArea(varAreaStart, ub) ==
    varAreaStart .. (IF varAreaStart + NUM_VARIABLES - 1 > ub
                     THEN ub ELSE varAreaStart + NUM_VARIABLES - 1)

\* index of the word named Var_<pid>_<varName>; with findFree, else the
\* first free slot; else -1
findVariableMemoryIndex(s, pid, varName, findFree) ==
    IF ~ValidPid(s, pid) THEN -1
    ELSE ScanVarArea(s, pid, varName, findFree,
                     VarArea(PcbOf(s, pid).memoryLowerBound + findInstructionCount(s, pid),
                             PcbOf(s, pid).memoryUpperBound))

\* setVariable once the slot is known
StoreAt(s, pid, varName, value, memIndex) ==
    IF memIndex < 0
    THEN SetState(sim_log(s, "Error: No free memory slot"), pid, "TERMINATED")
    ELSE [s EXCEPT !.memory[memIndex] = MemoryWord(VarName(pid, varName), value)]

\* setVariable after the reserved-name warning
StoreVariable(s, pid, varName, value) ==
    StoreAt(s, pid, varName, value, findVariableMemoryIndex(s, pid, varName, TRUE))

setVariable(s, pid, varName, value) ==
    IF ~ValidPid(s, pid) THEN s
    ELSE IF varName = NULL \/ varName = ""
    THEN SetState(sim_log(s, "Error: set variable with empty name"), pid, "TERMINATED")
    ELSE StoreVariable(IF varName = "input" \/ varName = "readFile"
                       THEN sim_log(s, "Warning: reserved name") ELSE s,
                       pid, varName, value)

\* getVariable once both lookups are done
ValueAt(s, pid, memIndex, fileIndex) ==
    IF memIndex >= 0 THEN [s |-> s, val |-> s.memory[memIndex].value]
    ELSE IF fileIndex >= 0 THEN [s |-> s, val |-> s.memory[fileIndex].value]
    ELSE [s |-> SetState(sim_log(s, "Error: Variable not found"), pid, "TERMINATED"),
          val |-> NULL]

\* result: the new state and the value, NULL if the name is not bound
getVariable(s, pid, varName) ==
    IF ~ValidPid(s, pid) THEN [s |-> s, val |-> NULL]
    ELSE IF varName = NULL \/ varName = ""
    THEN [s |-> SetState(sim_log(s, "Error: get variable with empty name"), pid, "TERMINATED"),
          val |-> NULL]
    ELSE ValueAt(s, pid,
                 findVariableMemoryIndex(s, pid, varName, FALSE),
                 findVariableMemoryIndex(s, pid, "file_" \o varName, FALSE))

(* ------------------------ instruction handlers ------------------------- *)

\* do_print once getVariable has answered g
PrintValue(g, pid) == IF g.val # NULL THEN sim_output(g.s, pid, g.val) ELSE g.s

do_print(s, pid, varName) == PrintValue(getVariable(s, pid, varName), pid)

do_assign(s, pid, varName, valueOrSource) ==
    IF ~ValidPid(s, pid) THEN s
    ELSE IF valueOrSource = "input"
    THEN IF s.request_input
         THEN notify_state_update(
                [sim_log(s, "needs input") EXCEPT !.needsInput = TRUE,
                                                  !.inputVarName = varName,
                                                  !.inputPid = pid])
         ELSE SetState(sim_log(s, "Error: no input callback registered"), pid, "TERMINATED")
    ELSE setVariable(s, pid, varName, valueOrSource)

\* fs is what the host file system answers: whether fopen succeeds and what
\* the file holds

\* do_writeFile once the data variable is read
WriteData(g2, pid, fs) ==
    IF g2.val = NULL THEN g2.s
    ELSE IF ~fs.ok
    THEN SetState(sim_log(g2.s, "Error: Cannot open file for writing"), pid, "TERMINATED")
    ELSE sim_log(g2.s, "wrote to file")

\* do_writeFile once the file-name variable is read
WriteNamed(g1, pid, dataVar, fs) ==
    IF g1.val = NULL THEN g1.s
    ELSE WriteData(getVariable(g1.s, pid, dataVar), pid, fs)

do_writeFile(s, pid, fileVar, dataVar, fs) ==
    IF ~ValidPid(s, pid) THEN s
    ELSE WriteNamed(getVariable(s, pid, fileVar), pid, dataVar, fs)

\* do_readFile once the file-name variable is read
ReadNamed(g, pid, fileVar, fs) ==
    IF g.val = NULL THEN g.s
    ELSE IF ~fs.ok
    THEN SetState(sim_log(g.s, "Error: Cannot open file for reading"), pid, "TERMINATED")
    ELSE setVariable(g.s, pid, "file_" \o fileVar, fs.content)

do_readFile(s, pid, fileVar, fs) ==
    IF ~ValidPid(s, pid) THEN s
    ELSE ReadNamed(getVariable(s, pid, fileVar), pid, fileVar, fs)

\* strtol(v, &end, 10) on the values the modelled programs bind
IsNumeric(v) == v \in {"", "1", "2", "3"}
LongOf(v) == IF v = "1" THEN 1 ELSE IF v = "2" THEN 2 ELSE IF v = "3" THEN 3 ELSE 0

RangeFromTo(a, b) ==
    IF a <= b THEN [i \in 1 .. (b - a + 1) |-> a + i - 1]
    ELSE [i \in 1 .. (a - b + 1) |-> a - i + 1]

\* do_printFromTo once both variables are read
PrintRange(g2, pid, s1) ==
    IF g2.val = NULL THEN g2.s
    ELSE IF ~IsNumeric(s1) \/ ~IsNumeric(g2.val)
    THEN SetState(sim_log(g2.s, "Error: printFromTo requires numeric values"),
                  pid, "TERMINATED")
    ELSE sim_output(g2.s, pid, RangeFromTo(LongOf(s1), LongOf(g2.val)))

\* do_printFromTo once the first variable is read
PrintFrom(g1, pid, v2) ==
    IF g1.val = NULL THEN g1.s
    ELSE PrintRange(getVariable(g1.s, pid, v2), pid, g1.val)

do_printFromTo(s, pid, v1, v2) ==
    IF ~ValidPid(s, pid) THEN s
    ELSE PrintFrom(getVariable(s, pid, v1), pid, v2)

(* --------------------------- mutex operations -------------------------- *)

getResourceTypeFromString(str) ==
    IF str = NULL THEN -1
    ELSE IF str = "file" THEN 0
    ELSE IF str = "userInput" THEN 1
    ELSE IF str = "userOutput" THEN 2
    ELSE -1

\* result: the new mutex and whether the pid was enqueued
enqueueMutexBlocked(m, pid) ==
    IF Len(m.blockedQueue) >= MAX_QUEUE_SIZE
    THEN [m |-> m, ok |-> FALSE]
    ELSE [m |-> [m EXCEPT !.blockedQueue = Append(@, pid)], ok |-> TRUE]

\* BestIndexInQueue without the priority scan: the head of the list
BestIndexInQueue_Fifo(s, q) == 1

\* position in the waiter list of the first waiter of smallest priority,
\* 0 if the scan selects nobody
BestIndexInQueue(s, q) ==
    LET cand == {i \in 1 .. Len(q) : ValidPid(s, q[i]) /\ PcbOf(s, q[i]).priority < 9999}
        best == {i \in cand :
                   /\ \A j \in cand : PcbOf(s, q[i]).priority <= PcbOf(s, q[j]).priority
                   /\ \A j \in cand : j < i => PcbOf(s, q[j]).priority > PcbOf(s, q[i]).priority}
    IN IF best = {} THEN 0 ELSE MinOf(best)

\* dequeueMutexBlocked once the scan has chosen bestIndexInQueue
DequeueAt(m, bestIndexInQueue) ==
    IF bestIndexInQueue = 0
    THEN [m |-> [m EXCEPT !.blockedQueue = Tail(@)], pid |-> Head(m.blockedQueue)]
    ELSE IF bestIndexInQueue = 1
    THEN [m |-> [m EXCEPT !.blockedQueue = Tail(@)], pid |-> m.blockedQueue[1]]
    ELSE [m |-> [m EXCEPT !.blockedQueue =
                           SelectSeq(@, LAMBDA x : x # m.blockedQueue[bestIndexInQueue])],
          pid |-> m.blockedQueue[bestIndexInQueue]]

\* result: the new mutex and the dequeued pid, -1 if the list is empty
dequeueMutexBlocked(s, m) ==
    IF Len(m.blockedQueue) = 0 THEN [m |-> m, pid |-> -1]
    ELSE DequeueAt(m, BestIndexInQueue(s, m.blockedQueue))

\* the CPU is given up if pid holds it
ReleaseCpu(s, pid) ==
    IF s.runningProcessID = pid THEN [s EXCEPT !.runningProcessID = -1] ELSE s

\* BlockEnqueued with the assignment of blockedOnResource forgotten
BlockEnqueued_NoResource(s, pid, r, e) ==
    IF ~e.ok
    THEN ReleaseCpu(SetState(sim_log(s, "Error: Mutex queue full"), pid, "TERMINATED"), pid)
    ELSE notify_state_update(sim_log(
           ReleaseCpu([s EXCEPT !.mutexes[r] = e.m,
                                !.processTable[pid].state = "BLOCKED"], pid),
           "BLOCKED on resource"))

\* BlockEnqueued with runningProcessID left on the blocked process
BlockEnqueued_KeepCpu(s, pid, r, e) ==
    IF ~e.ok
    THEN ReleaseCpu(SetState(sim_log(s, "Error: Mutex queue full"), pid, "TERMINATED"), pid)
    ELSE notify_state_update(sim_log(
           [s EXCEPT !.mutexes[r] = e.m,
                     !.processTable[pid].state = "BLOCKED",
                     !.processTable[pid].blockedOnResource = r],
           "BLOCKED on resource"))

\* blockProcess once enqueueMutexBlocked has answered e
BlockEnqueued(s, pid, r, e) ==
    IF ~e.ok
    THEN ReleaseCpu(SetState(sim_log(s, "Error: Mutex queue full"), pid, "TERMINATED"), pid)
    ELSE notify_state_update(sim_log(
           ReleaseCpu([s EXCEPT !.mutexes[r] = e.m,
                                !.processTable[pid].state = "BLOCKED",
                                !.processTable[pid].blockedOnResource = r], pid),
           "BLOCKED on resource"))

blockProcess(s, pid, r) ==
    IF ~ValidPid(s, pid) THEN s
    ELSE BlockEnqueued(s, pid, r, enqueueMutexBlocked(s.mutexes[r], pid))

\* the unblocked process goes back to the ready structure of the policy
MakeReady(s, pid) ==
    notify_state_update(sim_log(
      IF s.schedulerType = "MLFQ"
      THEN addToMLFQ(s, pid, PcbOf(s, pid).mlfqLevel)
      ELSE addToReadyQueue(s, pid),
      "UNBLOCKED"))

\* Unblocked where the dequeued process is queued as ready but left BLOCKED
Unblocked_StaysBlocked(s, r, d) ==
    IF d.pid < 0 THEN sim_log([s EXCEPT !.mutexes[r] = d.m], "Error: dequeue failed")
    ELSE IF ~ValidPid(s, d.pid)
    THEN sim_log([s EXCEPT !.mutexes[r] = d.m], "Error: PCB not found")
    ELSE [MakeReady([s EXCEPT !.mutexes[r] = d.m,
                              !.processTable[d.pid].state = "READY",
                              !.processTable[d.pid].blockedOnResource = -1,
                              !.wasUnblockedThisCycle[d.pid] = TRUE],
                    d.pid)
            EXCEPT !.processTable[d.pid].state = "BLOCKED"]

\* unblockProcess once dequeueMutexBlocked has answered d
Unblocked(s, r, d) ==
    IF d.pid < 0 THEN sim_log([s EXCEPT !.mutexes[r] = d.m], "Error: dequeue failed")
    ELSE IF ~ValidPid(s, d.pid)
    THEN sim_log([s EXCEPT !.mutexes[r] = d.m], "Error: PCB not found")
    ELSE MakeReady([s EXCEPT !.mutexes[r] = d.m,
                             !.processTable[d.pid].state = "READY",
                             !.processTable[d.pid].blockedOnResource = -1,
                             !.wasUnblockedThisCycle[d.pid] = TRUE],
                   d.pid)

unblockProcess(s, r) ==
    IF Len(s.mutexes[r].blockedQueue) = 0 THEN s
    ELSE Unblocked(s, r, dequeueMutexBlocked(s, s.mutexes[r]))

\* SemWaitOn with the assignment of lockingProcessID forgotten
SemWaitOn_NoHolder(s, pid, r) ==
    IF r < 0 \/ r >= NUM_RESOURCES
    THEN SetState(sim_log(s, "Error: semWait invalid resource name"), pid, "TERMINATED")
    ELSE IF s.mutexes[r].locked
    THEN blockProcess(
           [sim_log(s, "requests locked resource") EXCEPT
              !.processTable[pid].priority =
                 IF s.schedulerType = "MLFQ" THEN PcbOf(s, pid).mlfqLevel ELSE 0],
           pid, r)
    ELSE notify_state_update(sim_log(
           [s EXCEPT !.mutexes[r].locked = TRUE], "acquired resource"))

\* SemWaitOn where a mutex whose holder is TERMINATED is handed over
SemWaitOn_TakesFromDead(s, pid, r) ==
    IF r < 0 \/ r >= NUM_RESOURCES
    THEN SetState(sim_log(s, "Error: semWait invalid resource name"), pid, "TERMINATED")
    ELSE IF s.mutexes[r].locked
            /\ ~(/\ ValidPid(s, s.mutexes[r].lockingProcessID)
                 /\ PcbOf(s, s.mutexes[r].lockingProcessID).state = "TERMINATED")
    THEN blockProcess(
           [sim_log(s, "requests locked resource") EXCEPT
              !.processTable[pid].priority =
                 IF s.schedulerType = "MLFQ" THEN PcbOf(s, pid).mlfqLevel ELSE 0],
           pid, r)
    ELSE notify_state_update(sim_log(
           [s EXCEPT !.mutexes[r].locked = TRUE,
                     !.mutexes[r].lockingProcessID = pid],
           "acquired resource"))

\* do_semWait once the resource name is resolved to r
SemWaitOn(s, pid, r) ==
    IF r < 0 \/ r >= NUM_RESOURCES
    THEN SetState(sim_log(s, "Error: semWait invalid resource name"), pid, "TERMINATED")
    ELSE IF s.mutexes[r].locked
    THEN blockProcess(
           [sim_log(s, "requests locked resource") EXCEPT
              !.processTable[pid].priority =
                 IF s.schedulerType = "MLFQ" THEN PcbOf(s, pid).mlfqLevel ELSE 0],
           pid, r)
    ELSE notify_state_update(sim_log(
           [s EXCEPT !.mutexes[r].locked = TRUE,
                     !.mutexes[r].lockingProcessID = pid],
           "acquired resource"))

do_semWait(s, pid, resName) ==
    IF ~ValidPid(s, pid) THEN s
    ELSE SemWaitOn(s, pid, getResourceTypeFromString(resName))

\* the closing notification of do_semSignal, sent when nobody waits
NotifyIfNoWaiter(s, r) ==
    IF Len(s.mutexes[r].blockedQueue) = 0 THEN notify_state_update(s) ELSE s

\* SemSignalOn where an illegal signal also releases the mutex
SemSignalOn_IllegalReleases(s, pid, r) ==
    IF r < 0 \/ r >= NUM_RESOURCES
    THEN SetState(sim_log(s, "Error: semSignal invalid resource name"), pid, "TERMINATED")
    ELSE NotifyIfNoWaiter(
           IF s.mutexes[r].locked /\ s.mutexes[r].lockingProcessID = pid
           THEN unblockProcess(
                  sim_log([s EXCEPT !.mutexes[r].locked = FALSE,
                                    !.mutexes[r].lockingProcessID = -1],
                          "released resource"),
                  r)
           ELSE SetState(sim_log([s EXCEPT !.mutexes[r].locked = FALSE,
                                           !.mutexes[r].lockingProcessID = -1],
                                 "Error: Illegal semSignal"), pid, "TERMINATED"),
           r)

\* SemSignalOn where the release forgets to clear lockingProcessID
SemSignalOn_HolderKept(s, pid, r) ==
    IF r < 0 \/ r >= NUM_RESOURCES
    THEN SetState(sim_log(s, "Error: semSignal invalid resource name"), pid, "TERMINATED")
    ELSE NotifyIfNoWaiter(
           IF s.mutexes[r].locked /\ s.mutexes[r].lockingProcessID = pid
           THEN unblockProcess(
                  sim_log([s EXCEPT !.mutexes[r].locked = FALSE], "released resource"),
                  r)
           ELSE SetState(sim_log(s, "Error: Illegal semSignal"), pid, "TERMINATED"),
           r)

\* SemSignalOn that hands the mutex over to the waiter it wakes
SemSignalOn_HandsOver(s, pid, r) ==
    IF r < 0 \/ r >= NUM_RESOURCES
    THEN SetState(sim_log(s, "Error: semSignal invalid resource name"), pid, "TERMINATED")
    ELSE NotifyIfNoWaiter(
           IF s.mutexes[r].locked /\ s.mutexes[r].lockingProcessID = pid
           THEN IF Len(s.mutexes[r].blockedQueue) > 0
                THEN unblockProcess(
                       sim_log([s EXCEPT !.mutexes[r].lockingProcessID =
                                            Head(s.mutexes[r].blockedQueue)],
                               "released resource"),
                       r)
                ELSE sim_log([s EXCEPT !.mutexes[r].locked = FALSE,
                                       !.mutexes[r].lockingProcessID = -1],
                             "released resource")
           ELSE SetState(sim_log(s, "Error: Illegal semSignal"), pid, "TERMINATED"),
           r)

\* do_semSignal once the resource name is resolved to r
SemSignalOn(s, pid, r) ==
    IF r < 0 \/ r >= NUM_RESOURCES
    THEN SetState(sim_log(s, "Error: semSignal invalid resource name"), pid, "TERMINATED")
    ELSE NotifyIfNoWaiter(
           IF s.mutexes[r].locked /\ s.mutexes[r].lockingProcessID = pid
           THEN unblockProcess(
                  sim_log([s EXCEPT !.mutexes[r].locked = FALSE,
                                    !.mutexes[r].lockingProcessID = -1],
                          "released resource"),
                  r)
           ELSE SetState(sim_log(s, "Error: Illegal semSignal"), pid, "TERMINATED"),
           r)

do_semSignal(s, pid, resName) ==
    IF ~ValidPid(s, pid) THEN s
    ELSE SemSignalOn(s, pid, getResourceTypeFromString(resName))

(* ----------------------------- interpreter ----------------------------- *)

\* what one instruction did: the new state, the error flag and the
\* instruction_completed flag
Outcome(s, error, completed) == [s |-> s, error |-> error, completed |-> completed]

\* the re-check of the PCB after a handler: did the handler terminate pid
Dead(s, pid) == PcbOf(s, pid).state = "TERMINATED"

\* assign x readFile f, last step: the copy into x is stored
AssignStored(s, pid) == Outcome(s, Dead(s, pid), TRUE)

\* assign x readFile f, after the read-back c of file_<f>
AssignFromCopy(c, pid, a1) ==
    IF c.val = NULL
    THEN Outcome(sim_log(c.s, "Error: readFile intermediate variable not found"), TRUE, TRUE)
    ELSE AssignStored(setVariable(c.s, pid, a1, c.val), pid)

\* assign x readFile f, after do_readFile
AssignAfterRead(s, pid, a1, a3) ==
    IF Dead(s, pid) THEN Outcome(s, TRUE, TRUE)
    ELSE AssignFromCopy(getVariable(s, pid, "file_" \o a3), pid, a1)

\* assign x readFile f, after the file-name variable is read
AssignReadFile(g, pid, a1, a3, fs) ==
    IF g.val = NULL THEN Outcome(g.s, TRUE, TRUE)
    ELSE AssignAfterRead(do_readFile(g.s, pid, a3, fs), pid, a1, a3)

\* AssignDone with instruction_completed left true for a pending input
AssignDone_Completes(s, pid) == Outcome(s, Dead(s, pid), TRUE)

\* assign x <value|input>, after do_assign
AssignDone(s, pid) ==
    Outcome(s, Dead(s, pid), ~(s.needsInput /\ s.inputPid = pid))

\* semWait, after do_semWait
SemWaitDone(s, pid) == Outcome(s, FALSE, PcbOf(s, pid).state # "BLOCKED")

\* the instruction handlers as interpretInstruction dispatches them
ExecLine(s, pid, cmd, a1, a2, a3, fs) ==
    IF cmd = NULL \/ cmd = "" THEN Outcome(sim_log(s, "NOP instruction"), FALSE, TRUE)
    ELSE IF cmd = "print"
    THEN IF a1 # NULL THEN Outcome(do_print(s, pid, a1), FALSE, TRUE)
         ELSE Outcome(s, TRUE, TRUE)
    ELSE IF cmd = "assign"
    THEN IF a1 = NULL \/ a2 = NULL
         THEN Outcome(sim_log(s, "Error: assign requires variable name and value"),
                      TRUE, TRUE)
         ELSE IF a2 = "readFile" /\ a3 # NULL
         THEN AssignReadFile(getVariable(s, pid, a3), pid, a1, a3, fs)
         ELSE AssignDone(do_assign(s, pid, a1, a2), pid)
    ELSE IF cmd = "writeFile"
    THEN IF a1 # NULL /\ a2 # NULL
         THEN Outcome(do_writeFile(s, pid, a1, a2, fs), FALSE, TRUE)
         ELSE Outcome(s, TRUE, TRUE)
    ELSE IF cmd = "readFile"
    THEN IF a1 # NULL THEN Outcome(do_readFile(s, pid, a1, fs), FALSE, TRUE)
         ELSE Outcome(s, TRUE, TRUE)
    ELSE IF cmd = "printFromTo"
    THEN IF a1 # NULL /\ a2 # NULL
         THEN Outcome(do_printFromTo(s, pid, a1, a2), FALSE, TRUE)
         ELSE Outcome(s, TRUE, TRUE)
    ELSE IF cmd = "semWait"
    THEN IF a1 # NULL THEN SemWaitDone(do_semWait(s, pid, a1), pid)
         ELSE Outcome(s, TRUE, TRUE)
    ELSE IF cmd = "semSignal"
    THEN IF a1 # NULL THEN Outcome(do_semSignal(s, pid, a1), FALSE, TRUE)
         ELSE Outcome(s, TRUE, TRUE)
    ELSE Outcome(sim_log(s, "Error: Unknown command"), TRUE, TRUE)

\* EndIfPast without the termination: the counter passes the program and the
\* process stays as it is
EndIfPast_NoEnd(s, pid, message) == s

\* after programCounter++: the process ends when the counter passes the program
EndIfPast(s, pid, message) ==
    IF PcbOf(s, pid).programCounter >= findInstructionCount(s, pid)
    THEN SetState(sim_log(s, message), pid, "TERMINATED")
    ELSE s

\* AdvancePc without the test that the process is still RUNNING
AdvancePc_IgnoreState(s, pid, instruction_completed) ==
    IF instruction_completed
    THEN EndIfPast([s EXCEPT !.processTable[pid].programCounter = @ + 1],
                   pid, "finished program")
    ELSE s

\* the counter advances only for a RUNNING process whose instruction completed
AdvancePc(s, pid, instruction_completed) ==
    IF PcbOf(s, pid).state = "RUNNING" /\ instruction_completed
    THEN EndIfPast([s EXCEPT !.processTable[pid].programCounter = @ + 1],
                   pid, "finished program")
    ELSE s

\* the error flag of the handler terminates the process
AfterExec(x, pid) ==
    AdvancePc(IF x.error
              THEN SetState(sim_log(x.s, "Error processing instruction"), pid, "TERMINATED")
              ELSE x.s,
              pid, x.error \/ x.completed)

\* the instruction word is tokenized and handed to its handler
FetchExecute(s, pid, line, fs) ==
    AfterExec(ExecLine(sim_log(s, "Executing"), pid, line[1], line[2], line[3], line[4], fs),
              pid)

interpretInstruction(s, pid, fs) ==
    IF ~ValidPid(s, pid)
    THEN [sim_log(s, "Error: interpret for non-running") EXCEPT !.runningProcessID = -1]
    ELSE IF PcbOf(s, pid).state # "RUNNING"
    THEN [SetState(sim_log(s, "Error: interpret for non-running"), pid, "TERMINATED")
            EXCEPT !.runningProcessID = -1]
    ELSE IF PcbOf(s, pid).programCounter >= findInstructionCount(s, pid)
    THEN SetState(sim_log(s, "reached end of program"), pid, "TERMINATED")
    ELSE IF \/ PcbOf(s, pid).memoryLowerBound + PcbOf(s, pid).programCounter
                 < PcbOf(s, pid).memoryLowerBound
            \/ PcbOf(s, pid).memoryLowerBound + PcbOf(s, pid).programCounter
                 > PcbOf(s, pid).memoryUpperBound
    THEN [SetState(sim_log(s, "Error: invalid memory index"), pid, "TERMINATED")
            EXCEPT !.runningProcessID = -1]
    ELSE FetchExecute(s, pid,
                      s.memory[PcbOf(s, pid).memoryLowerBound
                               + PcbOf(s, pid).programCounter].value,
                      fs)

(* ------------------------------ provideInput --------------------------- *)

\* ResumeAfterInput with programCounter++ forgotten
ResumeAfterInput_NoAdvance(s, pid) ==
    IF PcbOf(s, pid).state = "RUNNING"
    THEN EndIfPast(s, pid, "finished program after receiving input")
    ELSE s

\* provideInput after the pending request is cleared: the counter moves past
\* the assign if the process is still RUNNING
ResumeAfterInput(s, pid) ==
    IF PcbOf(s, pid).state = "RUNNING"
    THEN EndIfPast([s EXCEPT !.processTable[pid].programCounter = @ + 1],
                   pid, "finished program after receiving input")
    ELSE s

\* provideInput after setVariable: the pending request is cleared
ClearRequest(s, pid) ==
    notify_state_update(
      ResumeAfterInput([s EXCEPT !.needsInput = FALSE, !.inputPid = -1, !.inputVarName = ""],
                       pid))

provideInput(s, input) ==
    IF ~s.needsInput \/ s.inputPid < 0
    THEN sim_log(s, "Warning: provideInput called when no input was pending")
    ELSE IF ~ValidPid(s, s.inputPid) \/ PcbOf(s, s.inputPid).state # "RUNNING"
    THEN [sim_log(s, "Warning: provideInput for a process not RUNNING") EXCEPT
            !.needsInput = FALSE, !.inputPid = -1]
    ELSE ClearRequest(
           IF input # NULL
           THEN setVariable(sim_log(s, "received input"), s.inputPid, s.inputVarName, input)
           ELSE setVariable(sim_log(sim_log(s, "received input"), "received NULL input"),
                            s.inputPid, s.inputVarName, ""),
           s.inputPid)

(* ------------------------------ the driver ----------------------------- *)

RECURSIVE ResetUnblockedFrom(_, _)
ResetUnblockedFrom(s, i) ==
    IF i >= s.processCount THEN s
    ELSE ResetUnblockedFrom(
           IF s.wasUnblockedThisCycle[i] /\ PcbOf(s, i).state = "READY"
           THEN [s EXCEPT !.wasUnblockedThisCycle[i] = FALSE] ELSE s,
           i + 1)

\* ArriveFrom without the test for NEW: every process whose arrival time has
\* come is enqueued again
RECURSIVE ArriveFrom_AnyState(_, _)
ArriveFrom_AnyState(s, i) ==
    IF i >= s.processCount THEN s
    ELSE ArriveFrom_AnyState(
           IF PcbOf(s, i).arrivalTime <= s.clockCycle
           THEN LET s1 == SetState(sim_log(s, "arrived"), i, "READY")
                IN notify_state_update(IF s1.schedulerType = "MLFQ"
                                       THEN addToMLFQ(s1, i, 0)
                                       ELSE addToReadyQueue(s1, i))
           ELSE s,
           i + 1)

RECURSIVE ArriveFrom(_, _)
ArriveFrom(s, i) ==
    IF i >= s.processCount THEN s
    ELSE ArriveFrom(
           IF PcbOf(s, i).state = "NEW" /\ PcbOf(s, i).arrivalTime <= s.clockCycle
           THEN LET s1 == SetState(sim_log(s, "arrived"), i, "READY")
                IN notify_state_update(IF s1.schedulerType = "MLFQ"
                                       THEN addToMLFQ(s1, i, 0)
                                       ELSE addToReadyQueue(s1, i))
           ELSE s,
           i + 1)

checkArrivals(s) == ArriveFrom(ResetUnblockedFrom(s, 0), 0)

AllTerminated(s) ==
    Cardinality({i \in 0 .. (s.processCount - 1) : PcbOf(s, i).state = "TERMINATED"})
        = s.processCount

\* result: the new state (the flag is set as a side effect) and the bool
isSimulationComplete(s) ==
    IF s.processCount = 0 THEN [s |-> s, ret |-> FALSE]
    ELSE IF s.simulationComplete THEN [s |-> s, ret |-> TRUE]
    ELSE IF AllTerminated(s)
    THEN [s |-> [s EXCEPT !.simulationComplete = TRUE], ret |-> TRUE]
    ELSE [s |-> s, ret |-> FALSE]

\* QuantumCheck where an expired MLFQ process is requeued at its own level
QuantumCheck_NoDemotion(s) ==
    LET pid == s.runningProcessID
        R(t, b) == [s |-> t, needToSchedule |-> b]
    IN IF pid >= 0
       THEN IF ~ValidPid(s, pid) \/ PcbOf(s, pid).state # "RUNNING"
            THEN R([sim_log(s, "Warning: Running PID is not in RUNNING state")
                      EXCEPT !.runningProcessID = -1], TRUE)
            ELSE IF s.schedulerType = "RR" /\ PcbOf(s, pid).quantumRemaining <= 0
            THEN R(notify_state_update(
                     [addToReadyQueue(SetState(sim_log(s, "RR quantum expired"), pid, "READY"),
                                      pid)
                        EXCEPT !.runningProcessID = -1]), TRUE)
            ELSE IF s.schedulerType = "MLFQ" /\ PcbOf(s, pid).quantumRemaining <= 0
            THEN R(notify_state_update(
                     [addToMLFQ(sim_log(SetState(sim_log(s, "MLFQ quantum expired"),
                                                 pid, "READY"), "demoted"),
                                pid, PcbOf(s, pid).mlfqLevel)
                        EXCEPT !.runningProcessID = -1]), TRUE)
            ELSE R(s, FALSE)
       ELSE R(s, TRUE)

\* phase 2: result is the new state and needToSchedule
QuantumCheck(s) ==
    LET pid == s.runningProcessID
        R(t, b) == [s |-> t, needToSchedule |-> b]
    IN IF pid >= 0
       THEN IF ~ValidPid(s, pid) \/ PcbOf(s, pid).state # "RUNNING"
            THEN R([sim_log(s, "Warning: Running PID is not in RUNNING state")
                      EXCEPT !.runningProcessID = -1], TRUE)
            ELSE IF s.schedulerType = "RR" /\ PcbOf(s, pid).quantumRemaining <= 0
            THEN R(notify_state_update(
                     [addToReadyQueue(SetState(sim_log(s, "RR quantum expired"), pid, "READY"),
                                      pid)
                        EXCEPT !.runningProcessID = -1]), TRUE)
            ELSE IF s.schedulerType = "MLFQ" /\ PcbOf(s, pid).quantumRemaining <= 0
            THEN LET lvl == PcbOf(s, pid).mlfqLevel
                     nextLevel == IF lvl < MLFQ_LEVELS - 1 THEN lvl + 1 ELSE lvl
                 IN R(notify_state_update(
                        [addToMLFQ(sim_log(SetState(sim_log(s, "MLFQ quantum expired"),
                                                    pid, "READY"), "demoted"),
                                   pid, nextLevel)
                           EXCEPT !.runningProcessID = -1]), TRUE)
            ELSE R(s, FALSE)
       ELSE R(s, TRUE)

\* DispatchNext without the reset of quantumRemaining
DispatchNext_StaleQuantum(n) ==
    IF n.pid >= 0
    THEN IF ValidPid(n.s, n.pid)
         THEN notify_state_update(sim_log(
                [n.s EXCEPT
                   !.runningProcessID = n.pid,
                   !.processTable[n.pid].state = "RUNNING"],
                "Dispatching"))
         ELSE [sim_log(n.s, "Error: Scheduled PID not found")
                 EXCEPT !.runningProcessID = -1]
    ELSE notify_state_update(
           [sim_log(n.s, "CPU Idle") EXCEPT !.runningProcessID = -1])

\* DispatchNext giving every MLFQ level a quantum of 1
DispatchNext_UnitQuantum(n) ==
    IF n.pid >= 0
    THEN IF ValidPid(n.s, n.pid)
         THEN notify_state_update(sim_log(
                [n.s EXCEPT
                   !.runningProcessID = n.pid,
                   !.processTable[n.pid].state = "RUNNING",
                   !.processTable[n.pid].quantumRemaining =
                      IF n.s.schedulerType = "RR" THEN n.s.rrQuantum
                      ELSE IF n.s.schedulerType = "MLFQ" THEN 1
                      ELSE @],
                "Dispatching"))
         ELSE [sim_log(n.s, "Error: Scheduled PID not found")
                 EXCEPT !.runningProcessID = -1]
    ELSE notify_state_update(
           [sim_log(n.s, "CPU Idle") EXCEPT !.runningProcessID = -1])

\* phase 3 once scheduleNextProcess has answered n
DispatchNext(n) ==
    IF n.pid >= 0
    THEN IF ValidPid(n.s, n.pid)
         THEN notify_state_update(sim_log(
                [n.s EXCEPT
                   !.runningProcessID = n.pid,
                   !.processTable[n.pid].state = "RUNNING",
                   !.processTable[n.pid].quantumRemaining =
                      IF n.s.schedulerType = "RR" THEN n.s.rrQuantum
                      ELSE IF n.s.schedulerType = "MLFQ"
                      THEN n.s.mlfqQuantum[PcbOf(n.s, n.pid).mlfqLevel]
                      ELSE @],
                "Dispatching"))
         ELSE [sim_log(n.s, "Error: Scheduled PID not found")
                 EXCEPT !.runningProcessID = -1]
    ELSE notify_state_update(
           [sim_log(n.s, "CPU Idle") EXCEPT !.runningProcessID = -1])

\* Dispatch that leaves the CPU idle in the cycle of a preemption
Dispatch_IdleAfterPreemption(s, needToSchedule) ==
    IF /\ needToSchedule
       /\ s.runningProcessID < 0
       /\ ~\E i \in 1 .. Len(s.events) :
              s.events[i] \in {<<"log", "RR quantum expired">>,
                               <<"log", "MLFQ quantum expired">>}
    THEN DispatchNext(scheduleNextProcess(s))
    ELSE s

\* phase 3
Dispatch(s, needToSchedule) ==
    IF needToSchedule /\ s.runningProcessID < 0
    THEN DispatchNext(scheduleNextProcess(s))
    ELSE s

\* phase 4 after interpretInstruction: the bookkeeping of a termination
AfterInterpret(s, pid) ==
    IF PcbOf(s, pid).state = "TERMINATED"
    THEN notify_state_update(
           [isSimulationComplete(sim_log(s, "terminated during execution")).s
              EXCEPT !.runningProcessID = -1])
    ELSE s

\* Execute without the decrement of quantumRemaining
Execute_NoCharge(s, fs) ==
    IF /\ s.runningProcessID >= 0
       /\ ValidPid(s, s.runningProcessID)
       /\ PcbOf(s, s.runningProcessID).state = "RUNNING"
       /\ ~s.needsInput
    THEN AfterInterpret(interpretInstruction(s, s.runningProcessID, fs), s.runningProcessID)
    ELSE s

\* phase 4
Execute(s, fs) ==
    IF /\ s.runningProcessID >= 0
       /\ ValidPid(s, s.runningProcessID)
       /\ PcbOf(s, s.runningProcessID).state = "RUNNING"
       /\ ~s.needsInput
    THEN AfterInterpret(
           interpretInstruction(
             IF s.schedulerType \in {"RR", "MLFQ"}
             THEN [s EXCEPT !.processTable[s.runningProcessID].quantumRemaining = @ - 1]
             ELSE s,
             s.runningProcessID, fs),
           s.runningProcessID)
    ELSE s

\* phase 6: the completion message
Announce(c) ==
    IF c.ret THEN notify_state_update(sim_log(c.s, "Simulation Complete")) ELSE c.s

\* Advance with the clock increment forgotten
Advance_NoTick(s) == Announce(isSimulationComplete(s))

\* phases 5 and 6
Advance(s) == Announce(isSimulationComplete([s EXCEPT !.clockCycle = @ + 1]))

\* phases 3 to 6, given the answer q of phase 2
RunCycle(q, fs) == Advance(Execute(Dispatch(q.s, q.needToSchedule), fs))

\* StepFrom with the quantum check run before the arrivals
StepFrom_QuantumFirst(s, fs) ==
    IF s.needsInput THEN sim_log(s, "Simulation paused, waiting for input")
    ELSE LET q == QuantumCheck(sim_log(s, "Clock Cycle"))
         IN RunCycle([s |-> checkArrivals(q.s), needToSchedule |-> q.needToSchedule], fs)

\* StepFrom without the early return on needsInput
StepFrom_NoPause(s, fs) ==
    RunCycle(QuantumCheck(checkArrivals(sim_log(s, "Clock Cycle"))), fs)

\* stepSimulation after the reset of the unblocked flags
StepFrom(s, fs) ==
    IF s.needsInput THEN sim_log(s, "Simulation paused, waiting for input")
    ELSE RunCycle(QuantumCheck(checkArrivals(sim_log(s, "Clock Cycle"))), fs)

\* stepSimulation once isSimulationComplete has answered c
StepChecked(c, fs) ==
    IF c.ret THEN sim_log(c.s, "Simulation already complete")
    ELSE StepFrom([c.s EXCEPT !.wasUnblockedThisCycle =
                                 [i \in 0 .. (MAX_PROCESSES - 1) |-> FALSE]],
                  fs)

stepSimulation(s, fs) == StepChecked(isSimulationComplete(s), fs)

(* ------------------------------- actions ------------------------------- *)

\* rrQuantum values and request_input registrations given to initializeSystem
Quanta == 0 .. MaxQuantum

\* what the host file system may answer to fopen and fgets
FsOutcomes == {[ok |-> TRUE, content |-> "hello"], [ok |-> FALSE, content |-> ""]}

\* what the front-end may pass to provideInput
Inputs == {"42", NULL}

Call(op, arg, ret) == [op |-> op, arg |-> arg, ret |-> ret]

TerminalCondition(s) == s.processCount > 0 /\ AllTerminated(s)

Init ==
    \E type \in SchedulerType, q \in Quanta, cb \in BOOLEAN :
        /\ sys = initializeSystem(type, q, cb)
        /\ call = Call("initializeSystem", "", FALSE)
        /\ terminalReached = FALSE

\* the driver stores what a call with a return value answered
Returned(op, arg, r) ==
    /\ sys' = r.s
    /\ call' = Call(op, arg, r.ret)

LoadProgram ==
    \E f \in Files :
        /\ sys.processCount < MaxLoads
        /\ sys.clockCycle <= MaxLoadClock
        /\ Returned("loadProgram", f.name, loadProgram(Begin(sys), f))
        /\ terminalReached' = (terminalReached \/ TerminalCondition(sys'))

StepSimulation ==
    \E fs \in FsOutcomes :
        /\ sys.clockCycle < MaxClock
        /\ sys' = stepSimulation(Begin(sys), fs)
        /\ call' = Call("stepSimulation", "", FALSE)
        /\ terminalReached' = (terminalReached \/ TerminalCondition(sys'))

ProvideInput ==
    \E input \in Inputs :
        /\ sys' = provideInput(Begin(sys), input)
        /\ call' = Call("provideInput", input, FALSE)
        /\ terminalReached' = (terminalReached \/ TerminalCondition(sys'))

IsSimulationComplete ==
    /\ Returned("isSimulationComplete", "", isSimulationComplete(Begin(sys)))
    /\ terminalReached' = (terminalReached \/ TerminalCondition(sys'))

Next == LoadProgram \/ StepSimulation \/ ProvideInput \/ IsSimulationComplete

Spec == Init /\ [][Next]_vars

\* Contention on the file mutex: a holder that keeps the mutex for several
\* instructions and processes that wait for it, loaded at different clock
\* values so that they block at different MLFQ levels.
ContentionFiles ==
    { File("Program_1.txt", ProgHolder),
      File("Program_2.txt", ProgLateWait),
      File("Program_3.txt", ProgWaitOnly) }

LoadContender ==
    \E f \in ContentionFiles :
        /\ sys.processCount < MaxContenders
        /\ sys.clockCycle <= MaxContendLoadClock
        /\ Returned("loadProgram", f.name, loadProgram(Begin(sys), f))
        /\ terminalReached' = (terminalReached \/ TerminalCondition(sys'))

NextContention == LoadContender \/ StepSimulation

SpecContention == Init /\ [][NextContention]_vars

\* Long runs: programs long enough to use up the quantum of every MLFQ
\* level, stepped until clockCycle reaches MaxLongClock.
LongFiles ==
    { File("Program_1.txt", ProgLong),
      File("Program_2.txt", ProgThree),
      File("Program_3.txt", ProgFive) }

LoadLong ==
    \E f \in LongFiles :
        /\ sys.processCount < MaxLoads
        /\ sys.clockCycle <= MaxLoadClock
        /\ Returned("loadProgram", f.name, loadProgram(Begin(sys), f))
        /\ terminalReached' = (terminalReached \/ TerminalCondition(sys'))

StepLong ==
    \E fs \in FsOutcomes :
        /\ sys.clockCycle < MaxLongClock
        /\ sys' = stepSimulation(Begin(sys), fs)
        /\ call' = Call("stepSimulation", "", FALSE)
        /\ terminalReached' = (terminalReached \/ TerminalCondition(sys'))

NextLong == LoadLong \/ StepLong

SpecLong == Init /\ [][NextLong]_vars

\* Filling the memory: programs of one line, of three lines and of more than
\* MAX_PROGRAM_LINES lines, all loaded before the first step; loadProgram is
\* called until the memory refuses.
ArenaFiles ==
    { File("Program_1.txt", ProgWaitOnly),
      File("Program_2.txt", ProgThree),
      File("Program_3.txt", [i \in 1 .. (MAX_PROGRAM_LINES + 1) |-> Ins2("assign", "x", "1")]) }

LoadArena ==
    \E f \in ArenaFiles :
        /\ sys.clockCycle = 0
        /\ Returned("loadProgram", f.name, loadProgram(Begin(sys), f))
        /\ terminalReached' = (terminalReached \/ TerminalCondition(sys'))

NextArena == LoadArena \/ StepSimulation

SpecArena == Init /\ [][NextArena]_vars

\* Faulty programs: an unknown opcode, an opcode with an argument missing,
\* an opcode with an argument too many, an unknown resource, a semSignal
\* without the mutex and a print of an unbound variable, each followed by an
\* instruction without error; a program that rebinds a name and then binds
\* a fourth one; a program with a variable named Free0; a program that reads
\* the name Free1 without binding it; a program that fails while it holds
\* the file mutex and one that ends while it holds it; and a program without
\* error.
FaultyFiles ==
    { File("Program_1.txt", <<Ins1("jump", "x"), Ins2("assign", "x", "1")>>),
      File("Program_2.txt", <<Ins1("assign", "x"), Ins2("assign", "x", "1")>>),
      File("Program_3.txt", <<Ins2("assign", "x", "1"), Ins2("print", "x", "y"),
                              Ins2("assign", "z", "3")>>),
      File("bad_resource.txt", <<Ins1("semWait", "disk"), Ins2("assign", "x", "1")>>),
      File("bad_signal.txt", ProgBadSignal),
      File("unbound.txt", <<Ins1("print", "y"), Ins2("assign", "x", "1")>>),
      File("four_names.txt", <<Ins2("assign", "x", "1"), Ins2("assign", "y", "2"),
                               Ins2("assign", "x", "3"), Ins2("assign", "z", "3"),
                               Ins2("assign", "w", "1"), Ins2("assign", "y", "1")>>),
      File("free_names.txt", <<Ins2("assign", "Free0", "1"), Ins2("assign", "y", "2")>>),
      File("free_read.txt", <<Ins1("print", "Free1"), Ins2("assign", "x", "1")>>),
      File("held_error.txt", <<Ins1("semWait", "file"), Ins1("print", "y")>>),
      File("wait_only.txt", ProgWaitOnly),
      File("three.txt", ProgThree) }

LoadFaulty ==
    \E f \in FaultyFiles :
        /\ sys.processCount < MaxLoads
        /\ sys.clockCycle <= MaxLoadClock
        /\ Returned("loadProgram", f.name, loadProgram(Begin(sys), f))
        /\ terminalReached' = (terminalReached \/ TerminalCondition(sys'))

NextFaulty == LoadFaulty \/ StepSimulation

SpecFaulty == Init /\ [][NextFaulty]_vars

(* ------------------------- properties: helpers ------------------------- *)

Pids == 0 .. (sys.processCount - 1)
StateOf(p) == sys.processTable[p].state
CountIn(q, p) == Cardinality({k \in 1 .. Len(q) : q[k] = p})
InReadyQueue(p) == CountIn(sys.readyQueue, p)
InMLFQ(p) == CountIn(sys.mlfqRQ[0], p) + CountIn(sys.mlfqRQ[1], p)
             + CountIn(sys.mlfqRQ[2], p) + CountIn(sys.mlfqRQ[3], p)
InWaiters(r, p) == CountIn(sys.mutexes[r].blockedQueue, p)
InAnyWaiters(p) == InWaiters(0, p) + InWaiters(1, p) + InWaiters(2, p)
ResourceName(r) == <<"file", "userInput", "userOutput">>[r + 1]
StepCalled == call'.op = "stepSimulation"

(* ------------------------------ properties ----------------------------- *)

\* C1: at every call boundary at most one PCB is RUNNING, and
\* runningProcessID names a process if and only if that process is RUNNING.
C1_RunningPidIffRunning ==
    /\ Cardinality({p \in Pids : StateOf(p) = "RUNNING"}) <= 1
    /\ sys.runningProcessID \in Pids \cup {-1}
    /\ \A p \in Pids : (sys.runningProcessID = p) <=> (StateOf(p) = "RUNNING")

\* C2: at every call boundary every READY PCB occupies exactly one slot of
\* the ready structures: one slot of the FCFS/RR queue, or one slot of one
\* MLFQ level.
C2_ReadyExactlyOnce ==
    \A p \in Pids :
        StateOf(p) = "READY" =>
            IF sys.schedulerType = "MLFQ"
            THEN InMLFQ(p) = 1 /\ InReadyQueue(p) = 0
            ELSE InReadyQueue(p) = 1 /\ InMLFQ(p) = 0

\* a preempted process waits at MLFQ level 1 while another process runs
C2_Witness ==
    \E p \in Pids :
        /\ StateOf(p) = "READY"
        /\ CountIn(sys.mlfqRQ[1], p) = 1
        /\ sys.runningProcessID >= 0

\* C3: at every call boundary a RUNNING or NEW PCB is in no ready queue and
\* in no mutex waiter list.
C3_RunningNewNotQueued ==
    \A p \in Pids :
        StateOf(p) \in {"RUNNING", "NEW"} =>
            InReadyQueue(p) + InMLFQ(p) + InAnyWaiters(p) = 0

\* a dispatched process runs while another is READY and a third party of the
\* claim, a NEW process, is absent or present
C3_Witness ==
    /\ call.op = "stepSimulation"
    /\ \E p, q \in Pids : StateOf(p) = "RUNNING" /\ StateOf(q) = "READY"

\* C4: at every call boundary every BLOCKED PCB is in exactly one waiter
\* list, exactly once, and that list is the one of its blockedOnResource.
C4_BlockedInOwnWaiterList ==
    \A p \in Pids :
        StateOf(p) = "BLOCKED" =>
            /\ sys.processTable[p].blockedOnResource \in ResourceType
            /\ InWaiters(sys.processTable[p].blockedOnResource, p) = 1
            /\ InAnyWaiters(p) = 1

\* a process blocked by semWait on a mutex another process holds
C4_Witness ==
    \E p \in Pids :
        /\ StateOf(p) = "BLOCKED"
        /\ sys.mutexes[sys.processTable[p].blockedOnResource].lockingProcessID # p

\* the instruction a process is at; NULL tokens when it is past the end
InstructionAtPc(p) ==
    LET pcb == sys.processTable[p]
    IN IF pcb.programCounter < findInstructionCount(sys, p)
       THEN sys.memory[pcb.memoryLowerBound + pcb.programCounter].value
       ELSE <<NULL, NULL, NULL, NULL>>

LockedIffHolder ==
    \A r \in ResourceType :
        sys.mutexes[r].locked <=> (sys.mutexes[r].lockingProcessID \in Pids)

\* C5 as stated: for each mutex, locked holds if and only if lockingProcessID
\* is a valid pid, and the holder is not in that mutex's waiter list,
\* whatever the program does.
C5_HolderNeverWaits ==
    /\ LockedIffHolder
    /\ \A r \in ResourceType :
           sys.mutexes[r].locked => InWaiters(r, sys.mutexes[r].lockingProcessID) = 0

\* C5 amended: for each mutex, locked holds if and only if lockingProcessID
\* is a valid pid (and is -1 otherwise); the holder is in that mutex's
\* waiter list only after it executed semWait on the resource it already
\* holds: it is then BLOCKED on that resource, once in the list, with its
\* program counter at that semWait.
C5_HolderWaitsOnlyOnSelfWait ==
    /\ LockedIffHolder
    /\ \A r \in ResourceType :
           /\ ~sys.mutexes[r].locked => sys.mutexes[r].lockingProcessID = -1
           /\ LET h == sys.mutexes[r].lockingProcessID
              IN (sys.mutexes[r].locked /\ InWaiters(r, h) > 0) =>
                     /\ InWaiters(r, h) = 1
                     /\ StateOf(h) = "BLOCKED"
                     /\ sys.processTable[h].blockedOnResource = r
                     /\ InstructionAtPc(h) = Ins1("semWait", ResourceName(r))

\* a mutex is held by one process while another waits on it
C5_Witness ==
    \E r \in ResourceType :
        /\ sys.mutexes[r].locked
        /\ Len(sys.mutexes[r].blockedQueue) > 0
        /\ InWaiters(r, sys.mutexes[r].lockingProcessID) = 0

\* C6: at every call boundary, for every PCB 0 <= programCounter <=
\* instructionCount(pid), and every instruction word of a process lies
\* inside that process's region [memoryLowerBound..memoryUpperBound].
C6_PcAndInstructionsInBounds ==
    /\ \A p \in Pids :
           /\ 0 <= sys.processTable[p].programCounter
           /\ sys.processTable[p].programCounter <= findInstructionCount(sys, p)
    /\ \A i \in 0 .. (MEMORY_SIZE - 1) :
           sys.memory[i].name.tag = "Inst" =>
               /\ sys.memory[i].name.pid \in Pids
               /\ sys.processTable[sys.memory[i].name.pid].memoryLowerBound <= i
               /\ i <= sys.processTable[sys.memory[i].name.pid].memoryUpperBound

\* the second of two loaded processes has run to the end of its program
C6_Witness ==
    \E p \in Pids :
        /\ p > 0
        /\ sys.processTable[p].programCounter = findInstructionCount(sys, p)
        /\ sys.processTable[p].programCounter > 1

\* C7 as stated: clockCycle never decreases, and every call of
\* stepSimulation adds exactly 1 to it unless the simulation is paused for
\* input at entry.
C7_StepAlwaysTicks ==
    [][/\ sys'.clockCycle >= sys.clockCycle
       /\ (StepCalled /\ ~sys.needsInput) => sys'.clockCycle = sys.clockCycle + 1]_vars

\* C7 amended: clockCycle never decreases; a call of stepSimulation adds
\* exactly 1 to it unless at entry the simulation is paused for input or
\* isSimulationComplete returns true, and in those two cases leaves it
\* unchanged; no other driver call changes it.
C7_StepTicksUnlessPausedOrComplete ==
    [][/\ sys'.clockCycle >= sys.clockCycle
       /\ StepCalled =>
              sys'.clockCycle = IF sys.needsInput \/ isSimulationComplete(sys).ret
                                THEN sys.clockCycle
                                ELSE sys.clockCycle + 1
       /\ ~StepCalled => sys'.clockCycle = sys.clockCycle]_vars

\* stepSimulation has been called on a complete simulation
C7_Witness ==
    /\ call.op = "stepSimulation"
    /\ sys.clockCycle > 0
    /\ sys.events = <<<<"log", "Simulation already complete">>>>

\* C8: in every reachable state isSimulationComplete returns true exactly
\* when processCount > 0 and every PCB in the process table is TERMINATED.
C8_CompleteIffAllTerminated ==
    isSimulationComplete(sys).ret <=> TerminalCondition(sys)

\* C9: a call of stepSimulation with needsInput set changes nothing of the
\* system state (clock, PCBs, queues, mutexes, runningProcessID, pending
\* input, memory, flags) and emits only the paused log notice.
C9_PausedStepIsNoOp ==
    [][(StepCalled /\ sys.needsInput) =>
           sys' = [sys EXCEPT !.events =
                     <<<<"log", "Simulation paused, waiting for input">>>>]]_vars

\* stepSimulation has been called while input was pending
C9_Witness ==
    /\ call.op = "stepSimulation"
    /\ sys.needsInput
    /\ sys.events = <<<<"log", "Simulation paused, waiting for input">>>>

\* C10: once the terminal condition has been reached, every later call of
\* stepSimulation changes neither the clock nor any PCB, queue, mutex or
\* runningProcessID.
C10_StepAfterTerminalIsNoOp ==
    [][(StepCalled /\ terminalReached) =>
           /\ sys'.clockCycle = sys.clockCycle
           /\ sys'.processTable = sys.processTable
           /\ sys'.readyQueue = sys.readyQueue
           /\ sys'.mlfqRQ = sys.mlfqRQ
           /\ sys'.mutexes = sys.mutexes
           /\ sys'.runningProcessID = sys.runningProcessID]_vars

\* the log and callback record of the last driver call
Logged(s, msg) == \E i \in 1 .. Len(s.events) : s.events[i] = <<"log", msg>>
ProvideCalled == call'.op = "provideInput"
InputPending == sys.needsInput /\ sys.inputPid >= 0
\* the last driver call was a provideInput that delivered a pending input
InputDelivered == call.op = "provideInput" /\ Logged(sys, "received input")
\* setVariable finds a word for the name: the bound one or a free one
HasSlot(s, pid, varName) == findVariableMemoryIndex(s, pid, varName, TRUE) >= 0
StepIsPaused(s) ==
    Len(s.events) > 0 /\ s.events[1] = <<"log", "Simulation paused, waiting for input">>

\* C11 as stated: when input is pending for (pid, x), provideInput(value)
\* binds x to value, clears needsInput and adds exactly 1 to pid's
\* programCounter, and the next stepSimulation is not paused and adds 1 to
\* the clock; when no input is pending, provideInput changes nothing.
C11_ProvideInputResumes ==
    [][/\ (ProvideCalled /\ InputPending /\ call'.arg # NULL) =>
              /\ getVariable(sys', sys.inputPid, sys.inputVarName).val = call'.arg
              /\ ~sys'.needsInput
              /\ sys'.processTable[sys.inputPid].programCounter
                   = sys.processTable[sys.inputPid].programCounter + 1
       /\ (ProvideCalled /\ ~InputPending) =>
              sys' = [sys EXCEPT !.events =
                        <<<<"log", "Warning: provideInput called when no input was pending">>>>]
       /\ (StepCalled /\ InputDelivered) =>
              /\ ~StepIsPaused(sys')
              /\ sys'.clockCycle = sys.clockCycle + 1]_vars

\* C11 amended: when input is pending for (pid, x), provideInput(value)
\* clears needsInput; if pid's variable store has a word for x (bound to x
\* or free) it binds x to value (to the empty string for a NULL value), adds
\* exactly 1 to pid's programCounter and terminates pid if that was its last
\* instruction; otherwise it terminates pid and leaves its programCounter
\* and the memory unchanged.  The next stepSimulation is not paused; it adds
\* 1 to the clock unless every process is TERMINATED by then, and then
\* leaves the clock unchanged.  When no input is pending, provideInput
\* changes nothing.
C11_ProvideInputResumesOrEnds ==
    [][/\ (ProvideCalled /\ InputPending) =>
              LET p == sys.inputPid
                  x == sys.inputVarName
                  pc == sys.processTable[sys.inputPid].programCounter
              IN /\ ~sys'.needsInput
                 /\ StateOf(p) = "RUNNING"
                 /\ IF HasSlot(sys, p, x)
                    THEN /\ getVariable(sys', p, x).val
                              = (IF call'.arg = NULL THEN "" ELSE call'.arg)
                         /\ sys'.processTable[p].programCounter = pc + 1
                         /\ sys'.processTable[p].state
                              = (IF pc + 1 >= findInstructionCount(sys, p)
                                 THEN "TERMINATED" ELSE "RUNNING")
                    ELSE /\ sys'.processTable[p].state = "TERMINATED"
                         /\ sys'.processTable[p].programCounter = pc
                         /\ sys'.memory = sys.memory
       /\ (ProvideCalled /\ ~InputPending) =>
              sys' = [sys EXCEPT !.events =
                        <<<<"log", "Warning: provideInput called when no input was pending">>>>]
       /\ (StepCalled /\ InputDelivered) =>
              /\ ~StepIsPaused(sys')
              /\ sys'.clockCycle = (IF TerminalCondition(sys) THEN sys.clockCycle
                                    ELSE sys.clockCycle + 1)]_vars

\* after provideInput("42") the next stepSimulation has printed x = 42
C11_Witness ==
    /\ call.op = "stepSimulation"
    /\ \E i \in 1 .. Len(sys.events), p \in Pids : sys.events[i] = <<"output", p, "42">>

\* a stepSimulation from sys runs its six phases: it is neither complete nor
\* paused at entry
StepRuns == ~isSimulationComplete(sys).ret /\ ~sys.needsInput

\* the state in which phase 3 of a stepSimulation from sys begins, with
\* needToSchedule
AtDispatch ==
    QuantumCheck(checkArrivals(sim_log(
      [isSimulationComplete(Begin(sys)).s EXCEPT
         !.wasUnblockedThisCycle = [i \in 0 .. (MAX_PROCESSES - 1) |-> FALSE]],
      "Clock Cycle")))

\* the state in which phase 4 of a stepSimulation from sys begins
AtExecute == Dispatch(AtDispatch.s, AtDispatch.needToSchedule)

\* phase 4 of a stepSimulation from sys hands process p, at the instruction
\* line, to interpretInstruction
Executes(p, line) ==
    /\ StepRuns
    /\ AtExecute.runningProcessID = p
    /\ AtExecute.processTable[p].state = "RUNNING"
    /\ ~AtExecute.needsInput
    /\ AtExecute.processTable[p].programCounter < findInstructionCount(AtExecute, p)
    /\ AtExecute.memory[AtExecute.processTable[p].memoryLowerBound
                        + AtExecute.processTable[p].programCounter].value = line

\* C12, second half: while mutex r is held, it stays held by the same
\* process until that process executes semSignal r; no other process's
\* semWait r makes it the holder.
HeldUntilSignalled ==
    \A r \in ResourceType :
        (sys.mutexes[r].locked /\ sys'.mutexes[r].lockingProcessID
                                     # sys.mutexes[r].lockingProcessID) =>
            /\ StepCalled
            /\ Executes(sys.mutexes[r].lockingProcessID, Ins1("semSignal", ResourceName(r)))

\* C12, the locked case: lock and holder unchanged, p at the tail of the
\* waiter list, BLOCKED on r, pc not advanced, CPU idle
SemWaitBlocks(p, r) ==
    /\ sys'.mutexes[r].locked
    /\ sys'.mutexes[r].lockingProcessID = AtExecute.mutexes[r].lockingProcessID
    /\ sys'.mutexes[r].blockedQueue = Append(AtExecute.mutexes[r].blockedQueue, p)
    /\ sys'.processTable[p].state = "BLOCKED"
    /\ sys'.processTable[p].blockedOnResource = r
    /\ sys'.processTable[p].programCounter = sys.processTable[p].programCounter
    /\ sys'.runningProcessID = -1

\* C12 as stated: semWait r executed by the running process p on an
\* unlocked mutex locks it with holder p, leaves p RUNNING and adds 1 to its
\* pc; on a locked mutex it leaves lock and holder unchanged, appends p to
\* the waiter list, blocks p on r without advancing its pc and idles the
\* CPU; a held mutex changes holder only by the holder's semSignal.
C12_SemWaitAcquiresOrBlocks ==
    [][/\ \A p \in Pids, r \in ResourceType :
              (StepCalled /\ Executes(p, Ins1("semWait", ResourceName(r)))) =>
                  IF ~AtExecute.mutexes[r].locked
                  THEN /\ sys'.mutexes[r].locked
                       /\ sys'.mutexes[r].lockingProcessID = p
                       /\ sys'.mutexes[r].blockedQueue = AtExecute.mutexes[r].blockedQueue
                       /\ sys'.processTable[p].programCounter
                            = sys.processTable[p].programCounter + 1
                       /\ sys'.processTable[p].state = "RUNNING"
                  ELSE SemWaitBlocks(p, r)
       /\ HeldUntilSignalled]_vars

\* C12 amended: as C12, except that after acquiring the mutex p stays
\* RUNNING only if the semWait was not its last instruction; if it was, p
\* is TERMINATED at the end of the step and still the holder of r.
C12_SemWaitAcquiresThenMayEnd ==
    [][/\ \A p \in Pids, r \in ResourceType :
              (StepCalled /\ Executes(p, Ins1("semWait", ResourceName(r)))) =>
                  IF ~AtExecute.mutexes[r].locked
                  THEN /\ sys'.mutexes[r].locked
                       /\ sys'.mutexes[r].lockingProcessID = p
                       /\ sys'.mutexes[r].blockedQueue = AtExecute.mutexes[r].blockedQueue
                       /\ sys'.processTable[p].programCounter
                            = sys.processTable[p].programCounter + 1
                       /\ sys'.processTable[p].state
                            = (IF sys.processTable[p].programCounter + 1
                                    >= findInstructionCount(sys, p)
                               THEN "TERMINATED" ELSE "RUNNING")
                  ELSE SemWaitBlocks(p, r)
       /\ HeldUntilSignalled]_vars

\* one process holds the file mutex, a second one has just been blocked by
\* its semWait, and the CPU is idle
C12_Witness ==
    /\ call.op = "stepSimulation"
    /\ Logged(sys, "requests locked resource")
    /\ sys.runningProcessID = -1
    /\ \E p, h \in Pids :
           /\ p # h
           /\ sys.mutexes[0].lockingProcessID = h
           /\ sys.mutexes[0].blockedQueue = <<p>>
           /\ StateOf(p) = "BLOCKED"

\* C13: semSignal r executed by a process p while r is unlocked or held by
\* another process terminates p, leaves mutex r (and every other mutex)
\* unchanged, wakes no waiter and changes no other PCB.
C13_IllegalSignalOnlyTerminatesCaller ==
    [][\A p \in Pids, r \in ResourceType :
           (/\ StepCalled
            /\ Executes(p, Ins1("semSignal", ResourceName(r)))
            /\ ~(AtExecute.mutexes[r].locked /\ AtExecute.mutexes[r].lockingProcessID = p)) =>
               /\ sys'.processTable[p].state = "TERMINATED"
               /\ sys'.mutexes = AtExecute.mutexes
               /\ \A q \in Pids \ {p} : sys'.processTable[q] = AtExecute.processTable[q]
               /\ sys'.readyQueue = AtExecute.readyQueue
               /\ sys'.mlfqRQ = AtExecute.mlfqRQ]_vars

\* a process has been terminated by its semSignal on the file mutex while
\* another process holds that mutex
C13_Witness ==
    /\ call.op = "stepSimulation"
    /\ Logged(sys, "Error: Illegal semSignal")
    /\ sys.mutexes[0].locked
    /\ \E p \in Pids : StateOf(p) = "TERMINATED" /\ sys.mutexes[0].lockingProcessID # p

\* the waiter list q without its k-th entry
WithoutIndex(q, k) == SubSeq(q, 1, k - 1) \o SubSeq(q, k + 1, Len(q))

\* C14: a semSignal r by the holder with a non-empty waiter list wakes
\* exactly one waiter, the first one of numerically smallest priority
\* (its mlfqLevel under MLFQ, 0 under FCFS/RR; the head of the list under
\* FCFS/RR); it is removed from the list, the others keep their order and
\* stay BLOCKED; the woken process is READY with blockedOnResource cleared
\* and appended to MLFQ level mlfqLevel or to the FCFS/RR ready queue.
C14_SignalWakesBestWaiter ==
    [][\A p \in Pids, r \in ResourceType :
           (/\ StepCalled
            /\ Executes(p, Ins1("semSignal", ResourceName(r)))
            /\ AtExecute.mutexes[r].locked
            /\ AtExecute.mutexes[r].lockingProcessID = p
            /\ AtExecute.mutexes[r].blockedQueue # <<>>) =>
               LET q == AtExecute.mutexes[r].blockedQueue
                   prio(i) == AtExecute.processTable[q[i]].priority
                   k == CHOOSE i \in 1 .. Len(q) :
                            \A j \in 1 .. Len(q) :
                                /\ prio(i) <= prio(j)
                                /\ j < i => prio(j) > prio(i)
                   w == q[k]
                   mlfq == sys.schedulerType = "MLFQ"
               IN /\ \A i \in 1 .. Len(q) :
                         prio(i) = (IF mlfq THEN AtExecute.processTable[q[i]].mlfqLevel ELSE 0)
                  /\ ~mlfq => k = 1
                  /\ sys'.mutexes[r].blockedQueue = WithoutIndex(q, k)
                  /\ \A i \in 1 .. Len(q) :
                         sys'.processTable[q[i]].state = (IF i = k THEN "READY" ELSE "BLOCKED")
                  /\ sys'.processTable[w].blockedOnResource = -1
                  /\ sys'.processTable[w].mlfqLevel = AtExecute.processTable[w].mlfqLevel
                  /\ sys'.readyQueue =
                        (IF mlfq THEN AtExecute.readyQueue ELSE Append(AtExecute.readyQueue, w))
                  /\ \A l \in 0 .. (MLFQ_LEVELS - 1) :
                         sys'.mlfqRQ[l] =
                            (IF mlfq /\ l = AtExecute.processTable[w].mlfqLevel
                             THEN Append(AtExecute.mlfqRQ[l], w)
                             ELSE AtExecute.mlfqRQ[l])]_vars

\* a semSignal has woken a waiter of priority 0 while a waiter of priority 1
\* or more, a process loaded earlier, stays in the list
C14_Witness ==
    /\ call.op = "stepSimulation"
    /\ Logged(sys, "UNBLOCKED")
    /\ \E w, b \in Pids :
           /\ b < w
           /\ sys.mutexes[0].blockedQueue = <<b>>
           /\ sys.processTable[b].priority >= 1
           /\ StateOf(w) = "READY"
           /\ sys.wasUnblockedThisCycle[w]
           /\ sys.processTable[w].priority = 0

\* C15: when a process takes mutex r by semWait while nobody waits on r,
\* and releases it by semSignal while nobody waits on r, the mutex is in the
\* same state before the semWait and after the semSignal: unlocked, without
\* holder, with an empty waiter list; the semSignal selects no waiter and
\* changes no other PCB, no other mutex and no ready structure.
C15_UncontendedPairRestoresMutex ==
    [][\A p \in Pids, r \in ResourceType :
           /\ (/\ StepCalled
               /\ Executes(p, Ins1("semWait", ResourceName(r)))
               /\ ~AtExecute.mutexes[r].locked
               /\ AtExecute.mutexes[r].blockedQueue = <<>>) =>
                  /\ AtExecute.mutexes[r] = Mutex0
                  /\ sys'.mutexes[r] = [Mutex0 EXCEPT !.locked = TRUE, !.lockingProcessID = p]
           /\ (/\ StepCalled
               /\ Executes(p, Ins1("semSignal", ResourceName(r)))
               /\ AtExecute.mutexes[r].locked
               /\ AtExecute.mutexes[r].lockingProcessID = p
               /\ AtExecute.mutexes[r].blockedQueue = <<>>) =>
                  /\ sys'.mutexes = [AtExecute.mutexes EXCEPT ![r] = Mutex0]
                  /\ ~Logged(sys', "UNBLOCKED")
                  /\ \A q \in Pids \ {p} : sys'.processTable[q] = AtExecute.processTable[q]
                  /\ sys'.readyQueue = AtExecute.readyQueue
                  /\ sys'.mlfqRQ = AtExecute.mlfqRQ]_vars

\* a process has released the file mutex it took, nobody was waiting, and
\* another process is present
C15_Witness ==
    /\ call.op = "stepSimulation"
    /\ Logged(sys, "released resource")
    /\ ~Logged(sys, "UNBLOCKED")
    /\ sys.mutexes[0] = Mutex0
    /\ sys.processCount > 1

\* the quantum a process is dispatched with
QuantumOf(s, p) ==
    IF s.schedulerType = "RR" THEN s.rrQuantum
    ELSE s.mlfqQuantum[s.processTable[p].mlfqLevel]
IsRunning(s, p) == s.runningProcessID = p /\ s.processTable[p].state = "RUNNING"
QuantumExpired(s) == Logged(s, "RR quantum expired") \/ Logged(s, "MLFQ quantum expired")

\* C16: under RR and MLFQ a dispatch gives the process its quantum Q and the
\* process executes in the cycle of its dispatch; in every later cycle it
\* executes again, without preemption, as long as it has executed fewer
\* than Q cycles (quantumRemaining = Q - executed > 0), unless it terminated
\* or blocked; after Q executed cycles it is preempted by the quantum check
\* at the start of the next cycle and does not execute a (Q+1)-th cycle in
\* that dispatch.
C16_QuantumExactlyConsumed ==
    [][(StepCalled /\ StepRuns /\ sys.schedulerType # "FCFS") =>
           /\ \A p \in Pids :
                  IsRunning(sys, p) =>
                      IF sys.processTable[p].quantumRemaining > 0
                      THEN /\ ~QuantumExpired(sys')
                           /\ ~Logged(sys', "Dispatching")
                           /\ AtExecute.runningProcessID = p
                           /\ \/ /\ IsRunning(sys', p)
                                 /\ sys'.processTable[p].quantumRemaining
                                      = sys.processTable[p].quantumRemaining - 1
                              \/ sys'.processTable[p].state \in {"BLOCKED", "TERMINATED"}
                      ELSE /\ sys.processTable[p].quantumRemaining = 0
                           /\ QuantumExpired(sys')
                           /\ AtDispatch.s.runningProcessID = -1
                           /\ AtDispatch.s.processTable[p].state = "READY"
           /\ \A p \in Pids :
                  (IsRunning(sys', p) /\ Logged(sys', "Dispatching")) =>
                      sys'.processTable[p].quantumRemaining = QuantumOf(sys', p) - 1
           /\ \A p \in Pids :
                  IsRunning(sys', p) =>
                      /\ sys'.processTable[p].quantumRemaining >= 0
                      /\ sys'.processTable[p].quantumRemaining < QuantumOf(sys', p)]_vars

\* a process dispatched at MLFQ level 2 with quantum 4 has executed four
\* cycles in a row and is still RUNNING, to be preempted by the next step
C16_Witness ==
    /\ sys.schedulerType = "MLFQ"
    /\ \E p \in Pids :
           /\ IsRunning(sys, p)
           /\ sys.processTable[p].mlfqLevel = 2
           /\ sys.processTable[p].quantumRemaining = 0
           /\ sys.processCount > 1

\* the level an MLFQ process is requeued at when its quantum expires
NextLevel(l) == IF l < MLFQ_LEVELS - 1 THEN l + 1 ELSE l

IsPrefix(a, b) == Len(a) <= Len(b) /\ SubSeq(b, 1, Len(a)) = a

\* the MLFQ levels that hold a process when phase 3 begins
NonEmptyLevels == {l \in 0 .. (MLFQ_LEVELS - 1) : AtDispatch.s.mlfqRQ[l] # <<>>}

\* phase 3 of a stepSimulation from sys has to pick a process
CpuFree == AtDispatch.needToSchedule /\ AtDispatch.s.runningProcessID < 0

\* C18: under MLFQ, when the CPU is free at the dispatch and some level is
\* non-empty, the process dispatched is the head of the lowest-numbered
\* non-empty level: it is READY before and not READY after, it is popped
\* from its level, every other READY process stays READY and queued, and no
\* level below it holds a process; when the CPU is busy or all levels are
\* empty nobody is dispatched.
C18_LowestLevelHeadDispatched ==
    [][(StepCalled /\ StepRuns /\ sys.schedulerType = "MLFQ") =>
           IF CpuFree /\ NonEmptyLevels # {}
           THEN LET L == MinOf(NonEmptyLevels)
                    h == Head(AtDispatch.s.mlfqRQ[L])
                IN /\ AtDispatch.s.processTable[h].state = "READY"
                   /\ AtExecute.runningProcessID = h
                   /\ Logged(sys', "Dispatching")
                   /\ sys'.processTable[h].state # "READY"
                   /\ \A l \in 0 .. (MLFQ_LEVELS - 1) :
                          IsPrefix(IF l = L THEN Tail(AtDispatch.s.mlfqRQ[l])
                                   ELSE AtDispatch.s.mlfqRQ[l],
                                   sys'.mlfqRQ[l])
                   /\ \A q \in Pids \ {h} :
                          AtDispatch.s.processTable[q].state = "READY" =>
                              sys'.processTable[q].state = "READY"
           ELSE /\ ~Logged(sys', "Dispatching")
                /\ \A l \in 0 .. (MLFQ_LEVELS - 1) :
                       IsPrefix(AtDispatch.s.mlfqRQ[l], sys'.mlfqRQ[l])]_vars

\* a process has been dispatched from level 0 while another process waits
\* at level 1
C18_Witness ==
    /\ sys.schedulerType = "MLFQ"
    /\ call.op = "stepSimulation"
    /\ Logged(sys, "Dispatching")
    /\ sys.mlfqRQ[1] # <<>>
    /\ \E p \in Pids : IsRunning(sys, p) /\ sys.processTable[p].mlfqLevel = 0

\* C19: under FCFS the ready queue is served in the order of enqueueing:
\* arrivals and unblocked processes are appended at its tail, a dispatch
\* takes its head and nobody else, and nothing else changes it; a RUNNING
\* process is never made READY: while it is RUNNING it keeps the CPU, and it
\* leaves it only BLOCKED or TERMINATED.
C19_FcfsInOrderNoPreemption ==
    [][sys.schedulerType = "FCFS" =>
           /\ \A p \in Pids :
                  StateOf(p) = "RUNNING" => sys'.processTable[p].state # "READY"
           /\ ~StepCalled => sys'.readyQueue = sys.readyQueue
           /\ (StepCalled /\ ~StepRuns) => sys'.readyQueue = sys.readyQueue
           /\ (StepCalled /\ StepRuns) =>
                  /\ \A p \in Pids :
                         IsRunning(sys, p) =>
                             /\ AtExecute.runningProcessID = p
                             /\ ~Logged(sys', "Dispatching")
                             /\ sys'.processTable[p].state = "RUNNING" =>
                                    sys'.runningProcessID = p
                  /\ IsPrefix(sys.readyQueue, AtDispatch.s.readyQueue)
                  /\ IF CpuFree /\ AtDispatch.s.readyQueue # <<>>
                     THEN LET h == Head(AtDispatch.s.readyQueue)
                          IN /\ AtDispatch.s.processTable[h].state = "READY"
                             /\ AtExecute.runningProcessID = h
                             /\ Logged(sys', "Dispatching")
                             /\ sys'.processTable[h].state # "READY"
                             /\ IsPrefix(Tail(AtDispatch.s.readyQueue), sys'.readyQueue)
                             /\ \A q \in Pids \ {h} :
                                    AtDispatch.s.processTable[q].state = "READY" =>
                                        sys'.processTable[q].state = "READY"
                     ELSE /\ ~Logged(sys', "Dispatching")
                          /\ IsPrefix(AtDispatch.s.readyQueue, sys'.readyQueue)]_vars

\* under FCFS the second process has been dispatched after the first left
\* the CPU, while the third waits in the ready queue
C19_Witness ==
    /\ sys.schedulerType = "FCFS"
    /\ call.op = "stepSimulation"
    /\ Logged(sys, "Dispatching")
    /\ sys.processCount = 3
    /\ IsRunning(sys, 1)
    /\ StateOf(0) \in {"BLOCKED", "TERMINATED"}
    /\ sys.readyQueue = <<2>>

\* the Round Robin scenario: rrQuantum 2 and two processes of three
\* instructions without error, both loaded at clock 0
RRScenario ==
    /\ sys.schedulerType = "RR"
    /\ sys.rrQuantum = 2
    /\ sys.processCount = 2
    /\ \A p \in {0, 1} :
           /\ sys.processTable[p].arrivalTime = 0
           /\ findInstructionCount(sys, p) = 3
           /\ \A k \in 0 .. 2 :
                  sys.memory[sys.processTable[p].memoryLowerBound + k].value = ProgThree[k + 1]

\* the program counters of the two processes
Pcs == <<sys.processTable[0].programCounter, sys.processTable[1].programCounter>>

\* the program counters after 0, 1, ... executed cycles when the executing
\* process is P1, P1, P2, P2, P1, P2
RROrder == << <<0, 0>>, <<1, 0>>, <<2, 0>>, <<2, 1>>, <<2, 2>>, <<3, 2>>, <<3, 3>> >>

\* C20 as stated: in the Round Robin scenario the process executing in
\* successive cycles is P1, P1, P2, P2, P1, P2, then both are terminated,
\* and the clock at termination is 9.
C20_RRScenarioEndsAtNine ==
    RRScenario =>
        /\ \E k \in 1 .. 7 : Pcs = RROrder[k]
        /\ TerminalCondition(sys) <=> Pcs = <<3, 3>>
        /\ TerminalCondition(sys) => sys.clockCycle = 9

\* C20 amended: in the Round Robin scenario one instruction is executed in
\* each cycle, by P1, P1, P2, P2, P1, P2 in this order, so that after k
\* cycles (k = 0..6) the program counters are the k-th pair of that order;
\* both processes are terminated when the clock is 6, and the clock stays 6.
C20_RRScenarioEndsAtSix ==
    RRScenario =>
        /\ sys.clockCycle <= 6
        /\ Pcs = RROrder[sys.clockCycle + 1]
        /\ TerminalCondition(sys) <=> sys.clockCycle = 6
        /\ StateOf(0) = "TERMINATED" <=> sys.clockCycle >= 5

\* the Round Robin scenario has run to its end
C20_Witness ==
    /\ RRScenario
    /\ call.op = "stepSimulation"
    /\ TerminalCondition(sys)
    /\ Logged(sys, "Simulation Complete")

\* the FCFS print scenario: one process, loaded at clock 0, whose only
\* instruction is a print
FcfsPrintScenario ==
    /\ sys.schedulerType = "FCFS"
    /\ sys.processCount = 1
    /\ sys.processTable[0].arrivalTime = 0
    /\ findInstructionCount(sys, 0) = 1
    /\ sys.memory[sys.processTable[0].memoryLowerBound].value[1] = "print"

\* the process_output callbacks of the last driver call for process p
OutputsOf(s, p) == SelectSeq(s.events, LAMBDA e : e[1] = "output" /\ e[2] = p)

\* C21 as stated: in the FCFS print scenario the process arrives in cycle 0
\* (READY, not yet dispatched, when the clock is 1), executes print in cycle
\* 1, has its pc past the end in cycle 2 and becomes TERMINATED in cycle 3,
\* so it is not TERMINATED while the clock is below 3.
C21_PrintScenarioTakesFourCycles ==
    FcfsPrintScenario =>
        /\ sys.clockCycle = 0 => StateOf(0) = "NEW"
        /\ sys.clockCycle = 1 => StateOf(0) = "READY"
        /\ StateOf(0) = "TERMINATED" => sys.clockCycle >= 3

\* C21 amended: in the FCFS print scenario the first stepSimulation (cycle
\* 0) lets the process arrive, dispatches it, executes its print and leaves
\* it TERMINATED with the clock at 1.  Whenever a process executes print v
\* as its last instruction, it is TERMINATED at the end of that same step:
\* with v bound the value is output exactly once and the pc is past the end,
\* with v unbound nothing is output and the pc is unchanged.
C21_PrintScenarioEndsInFirstCycle ==
    [][StepCalled =>
         /\ (FcfsPrintScenario /\ StateOf(0) = "NEW") =>
                /\ sys.clockCycle = 0
                /\ Logged(sys', "arrived")
                /\ Logged(sys', "Dispatching")
                /\ AtExecute.runningProcessID = 0
                /\ Logged(sys', "Executing")
                /\ sys'.processTable[0].state = "TERMINATED"
                /\ sys'.runningProcessID = -1
                /\ sys'.clockCycle = 1
                /\ TerminalCondition(sys')
         /\ \A p \in Pids, v \in {"x", "y"} :
                (/\ Executes(p, Ins1("print", v))
                 /\ AtExecute.processTable[p].programCounter
                      = findInstructionCount(AtExecute, p) - 1) =>
                    /\ sys'.processTable[p].state = "TERMINATED"
                    /\ sys'.runningProcessID = -1
                    /\ sys'.clockCycle = sys.clockCycle + 1
                    /\ IF getVariable(AtExecute, p, v).val # NULL
                       THEN /\ OutputsOf(sys', p)
                                 = << <<"output", p, getVariable(AtExecute, p, v).val>> >>
                            /\ sys'.processTable[p].programCounter
                                 = findInstructionCount(sys', p)
                       ELSE /\ OutputsOf(sys', p) = <<>>
                            /\ sys'.processTable[p].programCounter
                                 = sys.processTable[p].programCounter]_vars

\* a single FCFS process has executed print x, x bound, as its last
\* instruction: the value was output and the process is TERMINATED
C21_Witness ==
    /\ call.op = "stepSimulation"
    /\ sys.schedulerType = "FCFS"
    /\ sys.processCount = 1
    /\ OutputsOf(sys, 0) = << <<"output", 0, "42">> >>
    /\ StateOf(0) = "TERMINATED"
    /\ sys.processTable[0].programCounter = findInstructionCount(sys, 0)

\* the MLFQ scenario: one process of five instructions without error, loaded
\* at clock 0
MlfqScenario ==
    /\ sys.schedulerType = "MLFQ"
    /\ sys.processCount = 1
    /\ sys.processTable[0].arrivalTime = 0
    /\ findInstructionCount(sys, 0) = 5
    /\ \A k \in 0 .. 4 :
           sys.memory[sys.processTable[0].memoryLowerBound + k].value = ProgFive[k + 1]

\* C22 as stated: in the MLFQ scenario the process is dispatched five times,
\* at levels 0, 1, 2, 3, 3: each of its five instructions is executed in a
\* dispatch of its own, the k-th at the k-th level of that sequence, so the
\* process ends at level 3.
C22_MlfqScenarioFiveDispatches ==
    MlfqScenario =>
        /\ sys.processTable[0].programCounter \in 1 .. 5 =>
               sys.processTable[0].mlfqLevel
                 = <<0, 1, 2, 3, 3>>[sys.processTable[0].programCounter]
        /\ StateOf(0) = "TERMINATED" => sys.processTable[0].mlfqLevel = 3

\* C22 amended: in the MLFQ scenario the process is dispatched three times,
\* in the cycles 0, 1 and 3, at the levels 0, 1 and 2; it executes one
\* instruction per cycle, 1 at level 0, 2 at level 1 and the last 2 at
\* level 2, where it becomes TERMINATED in cycle 4 before the quantum of 4
\* is used up; it never reaches level 3.
C22_MlfqScenarioThreeDispatches ==
    [][(StepCalled /\ StepRuns /\ MlfqScenario) =>
           /\ sys.clockCycle \in 0 .. 4
           /\ Logged(sys', "Dispatching") <=> sys.clockCycle \in {0, 1, 3}
           /\ IsRunning(AtExecute, 0)
           /\ AtExecute.processTable[0].mlfqLevel = <<0, 1, 1, 2, 2>>[sys.clockCycle + 1]
           /\ sys'.processTable[0].mlfqLevel = AtExecute.processTable[0].mlfqLevel
           /\ sys'.processTable[0].programCounter = sys.clockCycle + 1
           /\ sys'.processTable[0].state = "TERMINATED" <=> sys.clockCycle = 4]_vars

\* the MLFQ scenario has run to its end: the process is TERMINATED at level 2
C22_Witness ==
    /\ MlfqScenario
    /\ call.op = "stepSimulation"
    /\ StateOf(0) = "TERMINATED"
    /\ sys.processTable[0].programCounter = 5
    /\ sys.processTable[0].mlfqLevel = 2
    /\ sys.clockCycle = 5

\* the phase of stepSimulation that writes a log message: 1 arrivals,
\* 2 quantum check, 3 dispatch, 4 execute, 6 terminal check; 0 for the
\* cycle header, -1 for a message or callback that several phases share
PhaseOf(e) ==
    IF e[1] # "log" THEN -1
    ELSE IF e[2] = "Clock Cycle" THEN 0
    ELSE IF e[2] = "arrived" THEN 1
    ELSE IF e[2] \in {"Warning: Running PID is not in RUNNING state",
                      "RR quantum expired", "MLFQ quantum expired", "demoted"} THEN 2
    ELSE IF e[2] \in {"Dispatching", "CPU Idle", "Error: Scheduled PID not found"} THEN 3
    ELSE IF e[2] \in {"Executing", "terminated during execution"} THEN 4
    ELSE IF e[2] = "Simulation Complete" THEN 6
    ELSE -1

\* position of pid in the queue q, 0 if it is not there
PositionIn(q, pid) ==
    IF \E k \in 1 .. Len(q) : q[k] = pid
    THEN MinOf({k \in 1 .. Len(q) : q[k] = pid}) ELSE 0

\* C23: a step that runs goes through arrivals, quantum check, dispatch,
\* execute, clock increment and terminal check in this order: the messages
\* of the phases appear in the log in phase order and the clock is
\* incremented once.  Under RR, when the quantum of the running process r is
\* used up at the start of a step in which a process p arrives, p is in the
\* ready queue ahead of r when the dispatch begins, r being at the tail.  A
\* process dispatched in a step executes its instruction in that step (and
\* is charged one unit of the quantum it was just given).
C23_PhasesInFixedOrder ==
    [][(StepCalled /\ StepRuns) =>
         /\ \A i, j \in 1 .. Len(sys'.events) :
                (i < j /\ PhaseOf(sys'.events[i]) >= 0 /\ PhaseOf(sys'.events[j]) >= 0) =>
                    PhaseOf(sys'.events[i]) <= PhaseOf(sys'.events[j])
         /\ sys'.events[1] = <<"log", "Clock Cycle">>
         /\ sys'.clockCycle = sys.clockCycle + 1
         /\ TerminalCondition(sys') <=> Logged(sys', "Simulation Complete")
         /\ \A r, p \in Pids :
                (/\ sys.schedulerType = "RR"
                 /\ IsRunning(sys, r)
                 /\ sys.processTable[r].quantumRemaining <= 0
                 /\ StateOf(p) = "NEW") =>
                    /\ PositionIn(AtDispatch.s.readyQueue, p) > 0
                    /\ PositionIn(AtDispatch.s.readyQueue, p)
                         < PositionIn(AtDispatch.s.readyQueue, r)
                    /\ PositionIn(AtDispatch.s.readyQueue, r) = Len(AtDispatch.s.readyQueue)
         /\ \A p \in Pids :
                (Logged(sys', "Dispatching") /\ AtExecute.runningProcessID = p) =>
                    /\ ~IsRunning(AtDispatch.s, p)
                    /\ Executes(p, AtExecute.memory[AtExecute.processTable[p].memoryLowerBound
                                     + AtExecute.processTable[p].programCounter].value)
                    /\ Logged(sys', "Executing")
                    /\ sys.schedulerType \in {"RR", "MLFQ"} =>
                           sys'.processTable[p].quantumRemaining
                             = QuantumOf(AtExecute, p) - 1]_vars

\* under RR a step saw a process arrive while the quantum of the running
\* process was used up: the arrival was dispatched and executed, the
\* preempted process waits behind it
C23_Witness ==
    /\ sys.schedulerType = "RR"
    /\ call.op = "stepSimulation"
    /\ Logged(sys, "arrived")
    /\ Logged(sys, "RR quantum expired")
    /\ Logged(sys, "Dispatching")
    /\ Logged(sys, "Executing")
    /\ sys.processCount = 2
    /\ sys.processTable[1].programCounter = 1
    /\ IsRunning(sys, 1)
    /\ sys.readyQueue = <<0>>

\* the NEW processes from pid i on, in the order in which the loop of
\* checkArrivals visits them
RECURSIVE NewFrom(_, _)
NewFrom(s, i) ==
    IF i >= s.processCount THEN <<>>
    ELSE (IF PcbOf(s, i).state = "NEW" THEN <<i>> ELSE <<>>) \o NewFrom(s, i + 1)

\* C24: a successful loadProgram creates the PCB NEW with arrivalTime equal
\* to the clock; a stepSimulation call that is not paused and whose
\* simulation is not terminal (not every PCB is TERMINATED) marks every NEW
\* process READY in its arrivals phase and appends the arrivals in
\* increasing pid order to level 0 under MLFQ, to the ready queue otherwise,
\* and no PCB is NEW after the step.
C24_LoadedArrivesAtNextStep ==
    [][/\ (call'.op = "loadProgram" /\ sys'.processCount = sys.processCount + 1) =>
              /\ sys'.processTable[sys.processCount].state = "NEW"
              /\ sys'.processTable[sys.processCount].arrivalTime = sys.clockCycle
              /\ sys'.clockCycle = sys.clockCycle
       /\ (StepCalled /\ ~sys.needsInput /\ ~TerminalCondition(sys)) =>
              /\ \A p \in Pids : sys'.processTable[p].state # "NEW"
              /\ Logged(sys', "arrived") <=> NewFrom(sys, 0) # <<>>
              /\ IF sys.schedulerType = "MLFQ"
                 THEN IsPrefix(sys.mlfqRQ[0] \o NewFrom(sys, 0), AtDispatch.s.mlfqRQ[0])
                 ELSE IsPrefix(sys.readyQueue \o NewFrom(sys, 0),
                               AtDispatch.s.readyQueue)]_vars

\* the state in which phase 2 of a stepSimulation from sys begins
AtQuantumCheck ==
    checkArrivals(sim_log(
      [isSimulationComplete(Begin(sys)).s EXCEPT
         !.wasUnblockedThisCycle = [i \in 0 .. (MAX_PROCESSES - 1) |-> FALSE]],
      "Clock Cycle"))

\* the PCB state changes of the process life cycle
LifeCycle ==
    { <<"NEW", "READY">>, <<"READY", "RUNNING">>, <<"RUNNING", "READY">>,
      <<"RUNNING", "BLOCKED">>, <<"BLOCKED", "READY">> }

\* number of entries for pid in the ready queue, the MLFQ levels and the
\* waiter lists of s
Queued(s, pid) ==
    CountIn(s.readyQueue, pid)
      + CountIn(s.mlfqRQ[0], pid) + CountIn(s.mlfqRQ[1], pid)
      + CountIn(s.mlfqRQ[2], pid) + CountIn(s.mlfqRQ[3], pid)
      + CountIn(s.mutexes[0].blockedQueue, pid) + CountIn(s.mutexes[1].blockedQueue, pid)
      + CountIn(s.mutexes[2].blockedQueue, pid)

\* from state a to state b every PCB keeps its state, makes one change of
\* the life cycle or becomes TERMINATED; a TERMINATED PCB stays TERMINATED
\* and is in no ready queue and no waiter list
LegalChange(a, b) ==
    \A p \in 0 .. (a.processCount - 1) :
        /\ \/ b.processTable[p].state = a.processTable[p].state
           \/ <<a.processTable[p].state, b.processTable[p].state>> \in LifeCycle
           \/ /\ b.processTable[p].state = "TERMINATED"
              /\ a.processTable[p].state # "TERMINATED"
        /\ a.processTable[p].state = "TERMINATED" => b.processTable[p].state = "TERMINATED"
        /\ b.processTable[p].state = "TERMINATED" => Queued(b, p) = 0

\* C25: over each phase of a running step (arrivals, quantum check,
\* dispatch, execute with the clock and terminal phases), over provideInput
\* and over every other driver call, the only PCB state changes are
\* NEW->READY, READY->RUNNING, RUNNING->READY, RUNNING->BLOCKED,
\* BLOCKED->READY and any state->TERMINATED; a TERMINATED PCB never changes
\* state again and is in no ready queue and no waiter list; a PCB is created
\* NEW.
C25_OnlyLifeCycleChanges ==
    [][/\ IF StepCalled /\ StepRuns
          THEN /\ LegalChange(sys, AtQuantumCheck)
               /\ LegalChange(AtQuantumCheck, AtDispatch.s)
               /\ LegalChange(AtDispatch.s, AtExecute)
               /\ LegalChange(AtExecute, sys')
          ELSE LegalChange(sys, sys')
       /\ \A p \in sys.processCount .. (sys'.processCount - 1) :
              sys'.processTable[p].state = "NEW"]_vars

\* a step has taken a process through RUNNING -> TERMINATED and, by its
\* semSignal, another one through BLOCKED -> READY
C25_Witness ==
    /\ call.op = "stepSimulation"
    /\ Logged(sys, "UNBLOCKED")
    /\ sys.processCount = 2
    /\ StateOf(0) = "TERMINATED"
    /\ StateOf(1) = "READY"
    /\ Queued(sys, 1) = 1
    /\ Queued(sys, 0) = 0

\* the number of arguments on an instruction line
ArgCount(line) == Cardinality({k \in 2 .. 4 : line[k] # NULL})

\* the numbers of arguments of the instruction table
Arities(cmd) ==
    IF cmd \in {"print", "readFile", "semWait", "semSignal"} THEN {1}
    ELSE IF cmd \in {"writeFile", "printFromTo"} THEN {2}
    ELSE IF cmd = "assign" THEN {2, 3}
    ELSE {}

\* the instruction line is malformed, reads an unbound variable, names an
\* unknown resource or is an illegal semSignal when p executes it in state s
FaultyLine(s, p, line) ==
    \/ ArgCount(line) \notin Arities(line[1])
    \/ line[1] = "assign" /\ ArgCount(line) = 3 /\ line[3] # "readFile"
    \/ line[1] = "print" /\ line[2] # NULL /\ getVariable(s, p, line[2]).val = NULL
    \/ /\ line[1] \in {"semWait", "semSignal"}
       /\ getResourceTypeFromString(line[2]) < 0
    \/ /\ line[1] = "semSignal"
       /\ getResourceTypeFromString(line[2]) >= 0
       /\ ~(/\ s.mutexes[getResourceTypeFromString(line[2])].locked
            /\ s.mutexes[getResourceTypeFromString(line[2])].lockingProcessID = p)

\* the instruction p is about to execute when phase 4 begins
LineAtExecute(p) ==
    AtExecute.memory[AtExecute.processTable[p].memoryLowerBound
                     + AtExecute.processTable[p].programCounter].value

\* C26: a process that executes an instruction that is malformed (unknown
\* opcode, or a known opcode with the wrong number of arguments), reads an
\* unbound variable, names an unknown resource or is an illegal semSignal is
\* TERMINATED at the end of that step, with the CPU given up; a TERMINATED
\* process is never dispatched again; and a step that finds the CPU free and
\* a process READY dispatches a process.
C26_FaultyInstructionTerminates ==
    [][(StepCalled /\ StepRuns) =>
         /\ \A p \in Pids :
                (/\ Executes(p, LineAtExecute(p))
                 /\ FaultyLine(AtExecute, p, LineAtExecute(p))) =>
                    /\ sys'.processTable[p].state = "TERMINATED"
                    /\ sys'.runningProcessID = -1
                    /\ sys'.processTable[p].programCounter
                         = sys.processTable[p].programCounter
         /\ \A p \in Pids :
                StateOf(p) = "TERMINATED" =>
                    /\ AtExecute.runningProcessID # p
                    /\ sys'.processTable[p] = sys.processTable[p]
         /\ (\E q \in Pids : StateOf(q) = "READY") /\ (\A q \in Pids : StateOf(q) # "RUNNING")
              => Logged(sys', "Dispatching")]_vars

\* the variables the modelled programs assign an input to
InputVars == {"x", "w"}

\* C27: when process p executes assign v input and a request_input callback
\* is registered, the pending-input descriptor becomes (p, v), p's pc is
\* not advanced and p stays RUNNING and keeps the CPU; when no callback is
\* registered p is TERMINATED instead, no input is pending and the CPU is
\* given up.
C27_AssignInputSetsPending ==
    [][StepCalled =>
         \A p \in Pids, v \in InputVars :
             Executes(p, Ins2("assign", v, "input")) =>
                 IF sys.request_input
                 THEN /\ sys'.needsInput
                      /\ sys'.inputPid = p
                      /\ sys'.inputVarName = v
                      /\ sys'.processTable[p].programCounter
                           = AtExecute.processTable[p].programCounter
                      /\ IsRunning(sys', p)
                      /\ sys'.memory = sys.memory
                 ELSE /\ sys'.processTable[p].state = "TERMINATED"
                      /\ ~sys'.needsInput
                      /\ sys'.runningProcessID = -1
                      /\ sys'.processTable[p].programCounter
                           = AtExecute.processTable[p].programCounter
                      /\ sys'.memory = sys.memory]_vars

\* the second process has executed assign x input with the callback
\* registered: input is pending for it and it holds the CPU
C27_Witness ==
    /\ call.op = "stepSimulation"
    /\ sys.request_input
    /\ Logged(sys, "needs input")
    /\ sys.needsInput
    /\ sys.inputPid = 1
    /\ sys.inputVarName = "x"
    /\ IsRunning(sys, 1)
    /\ sys.processTable[1].programCounter = 0

\* the request_input callbacks of the last driver call
RequestsOf(s) == SelectSeq(s.events, LAMBDA e : e[1] = "request_input")

\* C28: a step in which process p executes assign v input with the callback
\* registered invokes request_input exactly once, with the arguments
\* (p, v), within that step.
C28_RequestInputInvokedOnce ==
    [][StepCalled =>
         \A p \in Pids, v \in InputVars :
             (Executes(p, Ins2("assign", v, "input")) /\ sys.request_input) =>
                 RequestsOf(sys') = << <<"request_input", p, v>> >>]_vars

\* the pc of p after the call is its pc before the call plus n
PcMoved(p, n) ==
    sys'.processTable[p].programCounter = sys.processTable[p].programCounter + n

\* the resource a semWait or semSignal line names
ResourceOf(line) == getResourceTypeFromString(line[2])

\* C29: a driver call moves the pc of a process by 0 or by 1, and by 1 only
\* for the process that executes an instruction in a step or receives its
\* pending input.  An executed instruction that leaves the process RUNNING
\* with no input pending has advanced the pc by 1; so has every semWait on
\* an unlocked mutex (also one re-executed after unblocking), every
\* assignment of a literal to a name with a slot, and every provideInput
\* that binds the pending variable.  Whenever the pc advances to the
\* instruction count the process is TERMINATED in the same call, and
\* otherwise it is still RUNNING.  A semWait on a locked mutex blocks without
\* advancing the pc, and an assign-input with the callback registered does
\* not advance it.
C29_PcAdvancesOncePerInstruction ==
    [][\A p \in Pids :
         /\ PcMoved(p, 0) \/ PcMoved(p, 1)
         /\ PcMoved(p, 1) =>
                /\ \/ StepCalled /\ Executes(p, LineAtExecute(p))
                   \/ ProvideCalled /\ InputPending /\ sys.inputPid = p
                /\ IF sys'.processTable[p].programCounter >= findInstructionCount(sys', p)
                   THEN sys'.processTable[p].state = "TERMINATED"
                   ELSE sys'.processTable[p].state = "RUNNING"
         /\ (StepCalled /\ Executes(p, LineAtExecute(p))) =>
                /\ (IsRunning(sys', p) /\ ~sys'.needsInput) => PcMoved(p, 1)
                /\ (LineAtExecute(p)[1] = "semWait" /\ ResourceOf(LineAtExecute(p)) >= 0) =>
                       IF AtExecute.mutexes[ResourceOf(LineAtExecute(p))].locked
                       THEN PcMoved(p, 0) /\ sys'.processTable[p].state = "BLOCKED"
                       ELSE PcMoved(p, 1)
                /\ (LineAtExecute(p)[1] = "assign" /\ LineAtExecute(p)[3] = "input"
                      /\ sys.request_input) =>
                       PcMoved(p, 0) /\ sys'.needsInput
                /\ (LineAtExecute(p)[1] = "assign" /\ LineAtExecute(p)[3] \in {"1", "2", "3"}
                      /\ HasSlot(AtExecute, p, LineAtExecute(p)[2])) =>
                       PcMoved(p, 1)
         /\ (ProvideCalled /\ InputPending /\ sys.inputPid = p /\ IsRunning(sys, p)
               /\ HasSlot(sys, p, sys.inputVarName)) =>
                PcMoved(p, 1)]_vars

\* under RR with quantum 1 the second of two processes loaded at clock 0
\* blocked on the file mutex in cycle 1, was unblocked by the holder's
\* semSignal and has now re-executed its semWait, which acquired the mutex
\* and advanced its pc to 1
C29_Witness ==
    /\ call.op = "stepSimulation"
    /\ sys.schedulerType = "RR"
    /\ sys.rrQuantum = 1
    /\ sys.processCount = 2
    /\ sys.processTable[0].arrivalTime = 0
    /\ sys.processTable[1].arrivalTime = 0
    /\ StateOf(0) = "TERMINATED"
    /\ sys.processTable[0].programCounter = 3
    /\ Logged(sys, "acquired resource")
    /\ sys.mutexes[0].lockingProcessID = 1
    /\ sys.processTable[1].programCounter = 1

\* the variable names of the modelled programs
Names == {"x", "y", "z", "w", "a", "Free0", "Free1", "Free2"}

\* the variable slots of process p
SlotsOf(s, p) ==
    VarArea(PcbOf(s, p).memoryLowerBound + findInstructionCount(s, p),
            PcbOf(s, p).memoryUpperBound)

\* the names process p has bound: a slot carries the name, and it is not a
\* slot that loadProgram left free (a free slot has an empty value)
BoundNames(s, p) ==
    {u \in Names :
       \E i \in SlotsOf(s, p) :
           /\ s.memory[i].name = VarName(p, u)
           /\ u \in FreePrefixed => s.memory[i].value # ""}

\* the slot that holds the bound name u
SlotOfName(s, p, u) == MinOf({i \in SlotsOf(s, p) : s.memory[i].name = VarName(p, u)})

\* the slots that hold no bound name
FreeSlots(s, p) ==
    {i \in SlotsOf(s, p) : \A u \in BoundNames(s, p) : SlotOfName(s, p, u) # i}

\* C30: a process holds at most 3 bound names.  When it executes
\* assign v c for a literal c: if v is bound, its slot is reused and gets c;
\* if v is new and a slot is free, the first free slot gets v and c; in both
\* cases every other slot is unchanged.  If v is new and all 3 slots are
\* bound, the process is TERMINATED and no word of the memory changes.
C30_ThreeNamesPerProcess ==
    [][StepCalled =>
         \A p \in Pids, v \in Names, c \in {"1", "2", "3"} :
             Executes(p, Ins2("assign", v, c)) =>
                 /\ Cardinality(BoundNames(AtExecute, p)) <= NUM_VARIABLES
                 /\ IF v \in BoundNames(AtExecute, p)
                    THEN sys'.memory =
                           [AtExecute.memory EXCEPT ![SlotOfName(AtExecute, p, v)] =
                              MemoryWord(VarName(p, v), c)]
                    ELSE IF FreeSlots(AtExecute, p) # {}
                    THEN /\ sys'.memory =
                              [AtExecute.memory EXCEPT ![MinOf(FreeSlots(AtExecute, p))] =
                                 MemoryWord(VarName(p, v), c)]
                         /\ BoundNames(sys', p) = BoundNames(AtExecute, p) \cup {v}
                    ELSE /\ sys'.processTable[p].state = "TERMINATED"
                         /\ sys'.memory = AtExecute.memory]_vars

\* the slots of p that carry the name file_<n>
AliasSlots(s, p, n) ==
    {i \in SlotsOf(s, p) : s.memory[i].name = VarName(p, "file_" \o n)}

\* C31: when process p reads the name n (here by print n), it gets the
\* value bound to n if n is bound, otherwise the value bound to file_<n> if
\* that is bound, and otherwise it is TERMINATED without output: reading a
\* name that was never bound and has no file_ alias is fatal.
C31_ReadOfUnboundNameIsFatal ==
    [][StepCalled =>
         \A p \in Pids, n \in Names :
             Executes(p, Ins1("print", n)) =>
                 IF n \in BoundNames(AtExecute, p)
                 THEN OutputsOf(sys', p)
                        = << <<"output", p,
                               AtExecute.memory[SlotOfName(AtExecute, p, n)].value>> >>
                 ELSE IF AliasSlots(AtExecute, p, n) # {}
                 THEN OutputsOf(sys', p)
                        = << <<"output", p,
                               AtExecute.memory[MinOf(AliasSlots(AtExecute, p, n))].value>> >>
                 ELSE /\ OutputsOf(sys', p) = <<>>
                      /\ sys'.processTable[p].state = "TERMINATED"
                      /\ Logged(sys', "Error: Variable not found")]_vars

\* the two states differ at most in the events of the last call
SameButEvents(s, t) == Begin(s) = Begin(t)

\* a loadProgram of the file without instruction lines has just returned
EmptyLoaded == call'.op = "loadProgram" /\ call'.arg = "empty.txt"

\* C32 (as stated): loading a program with zero instructions is accepted
\* and creates a process, which becomes TERMINATED in the step of its first
\* dispatch.
C32_EmptyProgramCreatesProcess ==
    [][EmptyLoaded =>
         /\ call'.ret = TRUE
         /\ sys'.processCount = sys.processCount + 1]_vars

\* C32 (amended): loading a program with zero instructions is accepted with
\* a warning and creates no process: the process table, the memory, the
\* queues and every other field are as before the call; and every process
\* of the table has at least one instruction.
C32_EmptyProgramCreatesNothing ==
    [][/\ EmptyLoaded =>
            /\ call'.ret = TRUE
            /\ Logged(sys', "Warning: file is empty")
            /\ SameButEvents(sys, sys')
       /\ \A p \in 0 .. (sys'.processCount - 1) :
            findInstructionCount(sys', p) >= 1]_vars

C32_Witness ==
    /\ call.op = "loadProgram"
    /\ call.arg = "empty.txt"
    /\ call.ret = TRUE
    /\ sys.processCount = 1
    /\ sys.clockCycle = 1

\* the file of ArenaFiles a loadProgram call named
ArenaFile(n) == CHOOSE f \in ArenaFiles : f.name = n
\* the instruction lines loadProgram keeps of a file
LinesKept(f) == IF Len(f.lines) > MAX_PROGRAM_LINES THEN MAX_PROGRAM_LINES ELSE Len(f.lines)
MemoryNeeded(f) == LinesKept(f) + NUM_VARIABLES + PCB_SIZE

\* C33: loadProgram of a file with n >= 1 instruction lines succeeds exactly
\* when processCount < 10 and memoryPointer + min(n, 50) + 8 <= 60. On
\* success the new PCB is NEW with pid the old processCount, pc 0, lower
\* bound the old memoryPointer and a region of min(n, 50) + 3 + 5 words that
\* lies after every earlier region; on failure it returns false and
\* processCount, the process table and memoryPointer are unchanged.
C33_LoadSucceedsIffRoom ==
    [][call'.op = "loadProgram" =>
         /\ Len(ArenaFile(call'.arg).lines) >= 1
         /\ call'.ret <=> /\ sys.processCount < MAX_PROCESSES
                          /\ sys.memoryPointer + MemoryNeeded(ArenaFile(call'.arg))
                               <= MEMORY_SIZE
         /\ call'.ret =>
              /\ sys'.processCount = sys.processCount + 1
              /\ sys'.memoryPointer
                   = sys.memoryPointer + MemoryNeeded(ArenaFile(call'.arg))
              /\ sys'.processTable[sys.processCount].processID = sys.processCount
              /\ sys'.processTable[sys.processCount].state = "NEW"
              /\ sys'.processTable[sys.processCount].programCounter = 0
              /\ sys'.processTable[sys.processCount].memoryLowerBound = sys.memoryPointer
              /\ sys'.processTable[sys.processCount].memoryUpperBound
                   - sys'.processTable[sys.processCount].memoryLowerBound + 1
                   = MemoryNeeded(ArenaFile(call'.arg))
              /\ \A q \in Pids :
                   /\ sys'.processTable[q] = sys.processTable[q]
                   /\ sys.processTable[q].memoryUpperBound
                        < sys'.processTable[sys.processCount].memoryLowerBound
         /\ ~call'.ret =>
              /\ sys'.processCount = sys.processCount
              /\ sys'.processTable = sys.processTable
              /\ sys'.memoryPointer = sys.memoryPointer]_vars

\* six programs fill the memory exactly and a seventh load has failed
C33_Witness ==
    /\ call.op = "loadProgram"
    /\ ~call.ret
    /\ sys.processCount = 6
    /\ sys.memoryPointer = MEMORY_SIZE

\* mutex r of s is locked and its holder is TERMINATED
HeldByDead(s, r) ==
    /\ s.mutexes[r].locked
    /\ ValidPid(s, s.mutexes[r].lockingProcessID)
    /\ PcbOf(s, s.mutexes[r].lockingProcessID).state = "TERMINATED"

\* process p of s is BLOCKED on r, in the waiter list of r
WaitsOn(s, p, r) ==
    /\ PcbOf(s, p).state = "BLOCKED"
    /\ PcbOf(s, p).blockedOnResource = r
    /\ CountIn(s.mutexes[r].blockedQueue, p) = 1

\* C34: once the holder of mutex r is TERMINATED (by program end or by
\* error), r stays locked with that holder and the holder stays TERMINATED;
\* no waiter of r is woken: the waiter list only grows at its tail and every
\* process BLOCKED on r stays so; a process that executes semWait r is
\* BLOCKED on r at the end of that step; and while a process waits on r the
\* simulation is not complete.
C34_MutexOfTerminatedHolderStaysLocked ==
    [][\A r \in ResourceType :
         HeldByDead(sys, r) =>
             /\ HeldByDead(sys', r)
             /\ sys'.mutexes[r].lockingProcessID = sys.mutexes[r].lockingProcessID
             /\ IsPrefix(sys.mutexes[r].blockedQueue, sys'.mutexes[r].blockedQueue)
             /\ ~Logged(sys', "UNBLOCKED")
             /\ \A p \in Pids :
                  /\ WaitsOn(sys, p, r) => WaitsOn(sys', p, r)
                  /\ (StepCalled /\ Executes(p, Ins1("semWait", ResourceName(r))))
                       => WaitsOn(sys', p, r)
                  /\ WaitsOn(sys', p, r) =>
                       /\ ~sys'.simulationComplete
                       /\ ~isSimulationComplete(sys').ret]_vars

\* the holder failed at print y while it held the file mutex, the other
\* process has been waiting for it for several cycles
C34_Witness ==
    /\ sys.processCount = 2
    /\ HeldByDead(sys, 0)
    /\ Logged(sys, "Clock Cycle")
    /\ \E h, p \in Pids :
         /\ sys.mutexes[0].lockingProcessID = h
         /\ PcbOf(sys, h).programCounter = 1
         /\ findInstructionCount(sys, h) = 2
         /\ WaitsOn(sys, p, 0)
    /\ sys.clockCycle >= 5

\* the pids stored in a sequence
Stored(q) == {q[k] : k \in 1 .. Len(q)}

\* every pid in a ready queue of s is READY and every pid in a waiter list
\* of s is BLOCKED
QueuesHoldReadyAndBlocked(s) ==
    /\ \A p \in Stored(s.readyQueue) : ValidPid(s, p) /\ PcbOf(s, p).state = "READY"
    /\ \A l \in 0 .. (MLFQ_LEVELS - 1) :
         \A p \in Stored(s.mlfqRQ[l]) : ValidPid(s, p) /\ PcbOf(s, p).state = "READY"
    /\ \A r \in ResourceType :
         \A p \in Stored(s.mutexes[r].blockedQueue) :
             ValidPid(s, p) /\ PcbOf(s, p).state = "BLOCKED"

\* number of entries of the ready queue and the MLFQ levels of s
ReadyEntries(s) ==
    Len(s.readyQueue) + Len(s.mlfqRQ[0]) + Len(s.mlfqRQ[1])
      + Len(s.mlfqRQ[2]) + Len(s.mlfqRQ[3])

\* C35: at every call boundary, and when the scheduler is consulted within a
\* step, every pid in a ready queue (FCFS/RR or an MLFQ level) is READY and
\* every pid in a waiter list is BLOCKED; so scheduleNextProcess never
\* discards a popped pid: when a ready structure is non-empty it pops exactly
\* one entry and returns it.
C35_QueuedAreReadyWaitersBlocked ==
    [][/\ QueuesHoldReadyAndBlocked(sys)
       /\ QueuesHoldReadyAndBlocked(sys')
       /\ (StepCalled /\ StepRuns) =>
            /\ QueuesHoldReadyAndBlocked(AtDispatch.s)
            /\ ReadyEntries(AtDispatch.s) > 0 =>
                 /\ scheduleNextProcess(AtDispatch.s).pid >= 0
                 /\ ReadyEntries(scheduleNextProcess(AtDispatch.s).s)
                      = ReadyEntries(AtDispatch.s) - 1]_vars

\* a preempted holder is READY in a ready structure while another process is
\* BLOCKED in the waiter list of its mutex
C35_Witness ==
    \E p, q \in Pids :
        /\ StateOf(p) = "READY"
        /\ InReadyQueue(p) + InMLFQ(p) = 1
        /\ sys.mutexes[0].lockingProcessID = p
        /\ StateOf(q) = "BLOCKED"
        /\ InWaiters(0, q) = 1

\* the processes the memory admits at 9 or more words per process
ArenaProcesses == MEMORY_SIZE \div (1 + NUM_VARIABLES + PCB_SIZE)

\* the longest ready queue, MLFQ level or waiter list of s
LongestQueue(s) ==
    CHOOSE n \in 0 .. MAX_QUEUE_SIZE :
        /\ \A q \in {s.readyQueue, s.mlfqRQ[0], s.mlfqRQ[1], s.mlfqRQ[2], s.mlfqRQ[3],
                     s.mutexes[0].blockedQueue, s.mutexes[1].blockedQueue,
                     s.mutexes[2].blockedQueue} : Len(q) <= n
        /\ \E q \in {s.readyQueue, s.mlfqRQ[0], s.mlfqRQ[1], s.mlfqRQ[2], s.mlfqRQ[3],
                     s.mutexes[0].blockedQueue, s.mutexes[1].blockedQueue,
                     s.mutexes[2].blockedQueue} : Len(q) = n

\* C36: the number of loaded processes never exceeds what the 60 words admit
\* at 9 or more words per process; no ready queue, MLFQ level or waiter list
\* holds more entries than there are processes, so none holds 10 entries at
\* an enqueue, and no call takes an overflow path (MLFQ spill, termination on
\* a full ready queue, termination on a full waiter list).
C36_QueuesNeverFull ==
    /\ sys.processCount <= ArenaProcesses
    /\ sys.processCount * (1 + NUM_VARIABLES + PCB_SIZE) <= sys.memoryPointer
    /\ sys.memoryPointer <= MEMORY_SIZE
    /\ LongestQueue(sys) <= sys.processCount
    /\ LongestQueue(sys) < MAX_QUEUE_SIZE
    /\ ~Logged(sys, "Error: FCFS/RR Ready queue full")
    /\ ~Logged(sys, "Warning: MLFQ level full")
    /\ ~Logged(sys, "Error: All MLFQ levels full")
    /\ ~Logged(sys, "Error: Mutex queue full")

\* six processes are loaded and five of them wait for the file mutex
C36_Witness ==
    /\ sys.processCount = ArenaProcesses
    /\ Len(sys.mutexes[0].blockedQueue) = ArenaProcesses - 1

\* every instruction in the memory of s assigns a literal: no process
\* blocks, requests input or reads a file
OnlyLiteralAssignments(s) ==
    \A i \in 0 .. (MEMORY_SIZE - 1) :
        s.memory[i].name.tag = "Inst" =>
            /\ s.memory[i].value[1] = "assign"
            /\ s.memory[i].value[3] \notin {"input", "readFile", NULL}
            /\ s.memory[i].value[4] = NULL

\* the processes of s were all loaded before the first step, run programs
\* of literal assignments and none of them was terminated by an error
UndisturbedRun(s) ==
    /\ s.processCount > 0
    /\ OnlyLiteralAssignments(s)
    /\ \A p \in 0 .. (s.processCount - 1) :
         /\ PcbOf(s, p).arrivalTime = 0
         /\ PcbOf(s, p).state = "TERMINATED" =>
              PcbOf(s, p).programCounter = findInstructionCount(s, p)

\* the instructions of the first n processes of s, and those executed
RECURSIVE TotalInstructions(_, _)
TotalInstructions(s, n) ==
    IF n = 0 THEN 0 ELSE findInstructionCount(s, n - 1) + TotalInstructions(s, n - 1)
RECURSIVE ExecutedInstructions(_, _)
ExecutedInstructions(s, n) ==
    IF n = 0 THEN 0 ELSE PcbOf(s, n - 1).programCounter + ExecutedInstructions(s, n - 1)

\* C37: under each policy, when all processes are loaded before the first
\* step and none blocks, requests input or fails, every step until
\* completion executes exactly one instruction and adds 1 to the clock,
\* without an idle cycle; the clock equals the number of instructions
\* executed, and the simulation is complete exactly when the clock equals
\* the total number of instructions.
C37_OneInstructionPerStep ==
    [][UndisturbedRun(sys') =>
         /\ ExecutedInstructions(sys', sys'.processCount) = sys'.clockCycle
         /\ isSimulationComplete(sys').ret
              <=> sys'.clockCycle = TotalInstructions(sys', sys'.processCount)
         /\ (StepCalled /\ UndisturbedRun(sys)
               /\ sys.clockCycle < TotalInstructions(sys, sys.processCount)) =>
              /\ \E p \in Pids : Executes(p, LineAtExecute(p))
              /\ ExecutedInstructions(sys', sys'.processCount)
                   = ExecutedInstructions(sys, sys.processCount) + 1
              /\ sys'.clockCycle = sys.clockCycle + 1
              /\ ~Logged(sys', "CPU Idle")]_vars

\* two processes of three and five instructions, loaded at clock 0, are
\* complete at clock 8 after preemptions
C37_Witness ==
    /\ UndisturbedRun(sys)
    /\ sys.processCount = 2
    /\ sys.schedulerType # "FCFS"
    /\ sys.clockCycle = 8
    /\ TotalInstructions(sys, 2) = 8
    /\ AllTerminated(sys)
    /\ sys.simulationComplete

\* some process of s is BLOCKED and every other one is BLOCKED or TERMINATED
AllBlocked(s) ==
    /\ \E p \in 0 .. (s.processCount - 1) : PcbOf(s, p).state = "BLOCKED"
    /\ \A p \in 0 .. (s.processCount - 1) : PcbOf(s, p).state \in {"BLOCKED", "TERMINATED"}

\* C38: when every process that is not TERMINATED is BLOCKED, a step changes
\* only the clock, which it increments by 1; every process stays as it is,
\* so the same holds for every later step as long as no program is loaded,
\* and the simulation is not complete.
C38_DeadlockOnlyAdvancesClock ==
    [][AllBlocked(sys) =>
         /\ ~sys.simulationComplete
         /\ ~isSimulationComplete(sys).ret
         /\ StepCalled =>
              /\ SameButEvents([sys EXCEPT !.clockCycle = @ + 1], sys')
              /\ AllBlocked(sys')
              /\ ~isSimulationComplete(sys').ret]_vars

\* the instruction at the pc of process p of s
LineAtPc(s, p) ==
    s.memory[PcbOf(s, p).memoryLowerBound + PcbOf(s, p).programCounter].value

\* C39: a legal semSignal r leaves r unlocked with no holder, also when it
\* wakes a waiter: one waiter is removed from the waiter list and becomes
\* READY with its pc still at its semWait r. Every semWait r that is
\* executed, the one re-executed by a woken process included, acquires r if
\* r is unlocked and otherwise appends the process at the tail of the waiter
\* list of r and blocks it.
C39_WakingDoesNotTransfer ==
    [][StepCalled =>
         \A p \in Pids, r \in ResourceType :
             /\ (/\ Executes(p, Ins1("semSignal", ResourceName(r)))
                 /\ AtExecute.mutexes[r].locked
                 /\ AtExecute.mutexes[r].lockingProcessID = p) =>
                    /\ ~sys'.mutexes[r].locked
                    /\ sys'.mutexes[r].lockingProcessID = -1
                    /\ AtExecute.mutexes[r].blockedQueue # <<>> =>
                         \E w \in Stored(AtExecute.mutexes[r].blockedQueue) :
                             /\ sys'.mutexes[r].blockedQueue
                                  = SelectSeq(AtExecute.mutexes[r].blockedQueue,
                                              LAMBDA x : x # w)
                             /\ StateOf(w) = "BLOCKED"
                             /\ PcbOf(sys', w).state = "READY"
                             /\ PcbOf(sys', w).programCounter = PcbOf(sys, w).programCounter
                             /\ LineAtPc(sys', w) = Ins1("semWait", ResourceName(r))
             /\ Executes(p, Ins1("semWait", ResourceName(r))) =>
                    IF AtExecute.mutexes[r].locked
                    THEN SemWaitBlocks(p, r)
                    ELSE /\ sys'.mutexes[r].locked
                         /\ sys'.mutexes[r].lockingProcessID = p
                         /\ sys'.mutexes[r].blockedQueue = AtExecute.mutexes[r].blockedQueue
                         /\ sys'.processTable[p].programCounter
                              = sys.processTable[p].programCounter + 1]_vars

\* a legal semSignal has just woken a waiter: the file mutex is free, the
\* woken process is READY at its semWait and another process still waits
C39_Witness ==
    /\ call.op = "stepSimulation"
    /\ Logged(sys, "released resource")
    /\ Logged(sys, "UNBLOCKED")
    /\ ~sys.mutexes[0].locked
    /\ sys.mutexes[0].lockingProcessID = -1
    /\ Len(sys.mutexes[0].blockedQueue) = 1
    /\ \E w \in Pids :
         /\ StateOf(w) = "READY"
         /\ sys.wasUnblockedThisCycle[w]
         /\ LineAtPc(sys, w) = Ins1("semWait", "file")

\* the driver call from sys assigns to the name x of process p: p executes
\* an assign x instruction, or the pending input of p for x is delivered
AssignsTo(p, x) ==
    \/ /\ StepCalled
       /\ Executes(p, LineAtExecute(p))
       /\ LineAtExecute(p)[1] = "assign"
       /\ LineAtExecute(p)[2] = x
    \/ /\ ProvideCalled
       /\ InputPending
       /\ sys.inputPid = p
       /\ sys.inputVarName = x

\* C40: for every process p and every name x, the names Free0, Free1 and
\* Free2 included: when p executes assign x c and is not terminated by it, a
\* read of x returns c; and a bound name x keeps its value through every
\* driver call that does not assign to x of p, whatever p assigns to other
\* names and whatever other processes do.
C40_BindingKeptUntilReassigned ==
    [][\A p \in Pids, x \in Names :
         /\ \A c \in {"1", "2", "3"} :
              (/\ StepCalled
               /\ Executes(p, Ins2("assign", x, c))
               /\ sys'.processTable[p].state # "TERMINATED") =>
                  getVariable(sys', p, x).val = c
         /\ (x \in BoundNames(sys, p) /\ ~AssignsTo(p, x)) =>
              /\ x \in BoundNames(sys', p)
              /\ getVariable(sys', p, x).val = getVariable(sys, p, x).val]_vars

====
